---- MODULE Spec2Model ----
(***************************************************************************)
(* A model of the muskmelon interpreter: the abstract syntax tree          *)
(* (ast/ast.go), the Pratt parser over the lexer's tokens, the runtime     *)
(* objects (object package), the scope chain (Environment) and             *)
(* evaluator.Eval with every function it calls.                            *)
(*                                                                         *)
(* Eval is a recursive function that mutates the environments it is given. *)
(* It is modelled as recursive operators that thread the mutable part of   *)
(* the machine (the heap of environments, the allocation counter, the      *)
(* pending host fault) through every call, in the order the Go code makes  *)
(* the calls.  A Go panic (nil dereference, index out of range, integer    *)
(* division by zero, stack exhaustion) is the field "fault" of the         *)
(* threaded state: once set, every caller returns at once, as unwinding    *)
(* does.                                                                   *)
(***************************************************************************)
EXTENDS Integers, Sequences, FiniteSets, TLC

VARIABLES lexer, tokens, parser, errors, peeks, program, envs, result, fault, log, calls, pc

vars == <<lexer, tokens, parser, errors, peeks, program, envs, result, fault, log, calls, pc>>

(***************************************************************************)
(* Bounds of the model.                                                    *)
(***************************************************************************)
\* Longest program (in top-level statements) drawn from the statement alphabet.
MaxStmts == 2
\* Nesting of function applications after which the host stack is exhausted.
MaxCallDepth == 6
\* Threshold of the recursive counter program (100 in the spec's scenario).
CounterLimit == 1

(***************************************************************************)
(* ast: the node variants.  "at" is the node's identity (the address of    *)
(* the node the parser allocated), written as its path from the root.      *)
(***************************************************************************)
NoNode == [node |-> "nil"]

Identifier(name) == [node |-> "Identifier", at |-> <<>>, Value |-> name]

IntegerLiteral(v) == [node |-> "IntegerLiteral", at |-> <<>>, IntValue |-> v]

Boolean(b) == [node |-> "Boolean", at |-> <<>>, BoolValue |-> b]

StringLiteral(s) == [node |-> "StringLiteral", at |-> <<>>, Value |-> s]

ArrayLiteral(elements) ==
    [node |-> "ArrayLiteral", at |-> <<>>, Elements |-> elements]

IndexExpression(left, index) ==
    [node |-> "IndexExpression", at |-> <<>>, Left |-> left, Index |-> index]

PrefixExpression(op, right) ==
    [node |-> "PrefixExpression", at |-> <<>>, Operator |-> op, Right |-> right]

InfixExpression(left, op, right) ==
    [node |-> "InfixExpression", at |-> <<>>, Left |-> left, Operator |-> op,
     Right |-> right]

BlockStatement(stmts) ==
    [node |-> "BlockStatement", at |-> <<>>, Statements |-> stmts]

IfExpression(cond, cons, alt) ==
    [node |-> "IfExpression", at |-> <<>>, Condition |-> cond,
     Consequence |-> cons, Alternative |-> alt]

FunctionLiteral(params, body) ==
    [node |-> "FunctionLiteral", at |-> <<>>, Parameters |-> params, Body |-> body]

CallExpression(function, args) ==
    [node |-> "CallExpression", at |-> <<>>, Function |-> function,
     Arguments |-> args]

LetStatement(name, value) ==
    [node |-> "LetStatement", at |-> <<>>, Name |-> Identifier(name),
     LetValue |-> value]

ReturnStatement(value) ==
    [node |-> "ReturnStatement", at |-> <<>>, ReturnValue |-> value]

\* The *ast.LetStatement nil pointer that parseStatement returns wrapped in
\* the ast.Statement interface: it is not the nil interface.
NilLetStatement == [node |-> "(*LetStatement)(nil)", at |-> <<>>]

ExpressionStatement(expr) ==
    [node |-> "ExpressionStatement", at |-> <<>>, Expression |-> expr]

Program(stmts) == [node |-> "Program", at |-> <<>>, Statements |-> stmts]

\* Every node of a parsed tree is a distinct allocation: give each its path.
RECURSIVE Locate(_, _)
Locate(n, p) ==
    LET here == [n EXCEPT !.at = p] IN
    CASE n.node \in {"Program", "BlockStatement"} ->
           [here EXCEPT !.Statements =
               [i \in DOMAIN n.Statements |-> Locate(n.Statements[i], Append(p, i))]]
      [] n.node = "ExpressionStatement" ->
           [here EXCEPT !.Expression = Locate(n.Expression, Append(p, 1))]
      [] n.node = "LetStatement" ->
           [here EXCEPT !.Name = Locate(n.Name, Append(p, 1)),
                        !.LetValue = Locate(n.LetValue, Append(p, 2))]
      [] n.node = "ReturnStatement" ->
           [here EXCEPT !.ReturnValue = Locate(n.ReturnValue, Append(p, 1))]
      [] n.node = "PrefixExpression" ->
           [here EXCEPT !.Right = Locate(n.Right, Append(p, 1))]
      [] n.node = "InfixExpression" ->
           [here EXCEPT !.Left = Locate(n.Left, Append(p, 1)),
                        !.Right = Locate(n.Right, Append(p, 2))]
      [] n.node = "IfExpression" ->
           [here EXCEPT !.Condition = Locate(n.Condition, Append(p, 1)),
                        !.Consequence = Locate(n.Consequence, Append(p, 2)),
                        !.Alternative = Locate(n.Alternative, Append(p, 3))]
      [] n.node = "FunctionLiteral" ->
           [here EXCEPT !.Parameters =
               [i \in DOMAIN n.Parameters |-> Locate(n.Parameters[i], Append(p, i))],
                        !.Body = Locate(n.Body, Append(p, 0))]
      [] n.node = "CallExpression" ->
           [here EXCEPT !.Function = Locate(n.Function, Append(p, 0)),
                        !.Arguments =
               [i \in DOMAIN n.Arguments |-> Locate(n.Arguments[i], Append(p, i))]]
      [] n.node = "IndexExpression" ->
           [here EXCEPT !.Left = Locate(n.Left, Append(p, 1)),
                        !.Index = Locate(n.Index, Append(p, 2))]
      [] n.node = "ArrayLiteral" ->
           [here EXCEPT !.Elements =
               [i \in DOMAIN n.Elements |-> Locate(n.Elements[i], Append(p, i))]]
      [] n.node = "nil" -> n
      [] OTHER -> here

(***************************************************************************)
(* object: the runtime values.  "id" is the address of the object; the     *)
(* three singletons of the evaluator have fixed addresses and every        *)
(* &object.X{...} of the code takes a fresh one.                           *)
(***************************************************************************)
\* The nil interface value: it has no address and calling Type() on it faults.
nil == [type |-> "nil"]

NULL == [type |-> "NULL", id |-> 1]

TRUE_ == [type |-> "BOOLEAN", id |-> 2, BoolValue |-> TRUE]

FALSE_ == [type |-> "BOOLEAN", id |-> 3, BoolValue |-> FALSE]

FirstFreeId == 4

Integer(id, v) == [type |-> "INTEGER", id |-> id, IntValue |-> v]

Error(id, msg) == [type |-> "ERROR", id |-> id, Message |-> msg]

ReturnValue(id, v) == [type |-> "RETURN_VALUE", id |-> id, Wrapped |-> v]

Function(id, params, body, env) ==
    [type |-> "FUNCTION", id |-> id, Parameters |-> params, Body |-> body,
     Env |-> env]

\* Go's == on two interface values that hold pointers (or nil).
SameObject(a, b) ==
    IF a.type = "nil" \/ b.type = "nil"
    THEN a.type = b.type
    ELSE a.id = b.id

(***************************************************************************)
(* int64.  An Integer holds a Go int64.  Where the values stay far from    *)
(* its limits the model writes them as integers; where they reach the      *)
(* limits it writes the int64 as its eight bytes, least significant first, *)
(* in two's complement, and Go's + - * and unary - as the arithmetic on    *)
(* these bytes that drops the carry out of the last one.                   *)
(***************************************************************************)
\* The values of a byte and the bytes of an int64.
Base == 256
Limbs == 8

\* The k low bytes of n >= 0.
RECURSIVE Bytes(_, _)
Bytes(n, k) == IF k = 0 THEN <<>> ELSE <<n % Base>> \o Bytes(n \div Base, k - 1)

\* 1<<63 - 1 and -1<<63.
MaxInt64 == [i \in 1..(Limbs - 1) |-> Base - 1] \o <<Base \div 2 - 1>>
MinInt64 == Bytes(0, Limbs - 1) \o <<Base \div 2>>

\* a + b from byte i on, with the carry out of the bytes before it.
RECURSIVE AddFrom(_, _, _, _)
AddFrom(a, b, i, carry) ==
    IF i > Limbs THEN <<>>
    ELSE <<(a[i] + b[i] + carry) % Base>>
         \o AddFrom(a, b, i + 1, (a[i] + b[i] + carry) \div Base)

\* Whether the int64 is below zero.
Negative(a) == a[Limbs] >= Base \div 2

\* An addition that stops at the largest and at the smallest int64.
\* OverflowWraps tells the two apart.
Add64Saturating(a, b) ==
    IF Negative(a) = Negative(b) /\ Negative(AddFrom(a, b, 1, 0)) # Negative(a)
    THEN IF Negative(a) THEN MinInt64 ELSE MaxInt64
    ELSE AddFrom(a, b, 1, 0)

\* leftVal + rightVal: the carry out of the last byte is dropped.
Add64(a, b) == AddFrom(a, b, 1, 0)

\* -value: the complement plus one.
Neg64(a) == Add64([i \in 1..Limbs |-> Base - 1 - a[i]], Bytes(1, Limbs))

\* leftVal - rightVal
Sub64(a, b) == Add64(a, Neg64(b))

\* The int64 of the integer n.
Int64(n) == IF n >= 0 THEN Bytes(n, Limbs) ELSE Neg64(Bytes(0 - n, Limbs))

\* The products of bytes that meet in byte k of a * b: a[1] * b[k] + ... +
\* a[k] * b[1], summed from the i-th on.
RECURSIVE Column(_, _, _, _)
Column(a, b, k, i) ==
    IF i > k THEN 0 ELSE a[i] * b[k + 1 - i] + Column(a, b, k, i + 1)

\* a * b from byte k on, with the carry out of the bytes before it.
RECURSIVE MulFrom(_, _, _, _)
MulFrom(a, b, k, carry) ==
    IF k > Limbs THEN <<>>
    ELSE <<(Column(a, b, k, 1) + carry) % Base>>
         \o MulFrom(a, b, k + 1, (Column(a, b, k, 1) + carry) \div Base)

\* leftVal * rightVal: the carry out of the last byte is dropped.
Mul64(a, b) == MulFrom(a, b, 1, 0)

(***************************************************************************)
(* The machine state every evaluator function reads and writes:            *)
(*   val    the value the call that just returned has returned             *)
(*   envs   the heap of environments, envs[e] = [store, outer]             *)
(*   nobj   the next fresh object address                                  *)
(*   depth  the nesting of function applications in progress               *)
(*   fault  "" or the host fault that is unwinding the stack               *)
(*   log    the evaluations completed so far, in completion order          *)
(*   calls  the applications completed so far: the heap of environments    *)
(*          when applyFunction was entered and when it returned            *)
(***************************************************************************)
R(v, st) == [st EXCEPT !.val = v]

Panic(st, msg) == [st EXCEPT !.val = nil, !.fault = msg]

Alloc(st) == [st EXCEPT !.nobj = @ + 1]

\* The environment reference nil (the outer of a root scope).
NoEnv == 0

EmptyStore == [n \in {} |-> nil]

NewEnvironment(st) ==
    [env |-> Len(st.envs) + 1,
     st |-> [st EXCEPT !.envs = Append(@, [store |-> EmptyStore, outer |-> NoEnv])]]

\* A NewEnclosedEnvironment that hands out the outer environment itself.
\* CallLeavesEnvironments tells the two apart.
NewEnclosedEnvironmentShared(outer, st) == [env |-> outer, st |-> st]

NewEnclosedEnvironment(outer, st) ==
    LET e == NewEnvironment(st)
    IN [env |-> e.env, st |-> [e.st EXCEPT !.envs[e.env].outer = outer]]

\* A Get that looks in the receiver's own store only.
\* LateBindingVisible tells the two apart.
GetOwnStoreOnly(heap, e, name) ==
    LET ok == name \in DOMAIN heap[e].store
    IN [obj |-> IF ok THEN heap[e].store[name] ELSE nil, ok |-> ok]

RECURSIVE Get(_, _, _)
Get(heap, e, name) ==
    LET ok == name \in DOMAIN heap[e].store
    IN IF ~ok /\ heap[e].outer # NoEnv
       THEN Get(heap, heap[e].outer, name)
       ELSE [obj |-> IF ok THEN heap[e].store[name] ELSE nil, ok |-> ok]

\* A Set that also writes the binding into the enclosing scope.
\* ScopeChain tells the two apart.
SetInOuterToo(heap, e, name, val) ==
    LET own == [heap EXCEPT ![e].store = (name :> val) @@ @]
    IN IF heap[e].outer = NoEnv THEN own
       ELSE [own EXCEPT ![heap[e].outer].store = (name :> val) @@ @]

Set(heap, e, name, val) ==
    [heap EXCEPT ![e].store = (name :> val) @@ @]

(***************************************************************************)
(* evaluator                                                               *)
(*                                                                         *)
(* Every function takes the machine as its last argument and returns the   *)
(* machine it leaves behind, with the value it returns in "val".           *)
(***************************************************************************)
RECURSIVE Eval(_, _, _)
RECURSIVE evalProgramFrom(_, _, _, _, _)
RECURSIVE evalBlockStatementFrom(_, _, _, _, _)
RECURSIVE evalExpressionsFrom(_, _, _, _, _)
RECURSIVE evalExpressionsBackwards(_, _, _, _, _)

\* An isError that recognises nothing: no caller short-circuits.
\* ErrorShortCircuits tells the two apart.
isErrorNever(obj) == FALSE

isError(obj) == IF obj.type # "nil" THEN obj.type = "ERROR" ELSE FALSE

newError(msg, st) == R(Error(st.nobj, msg), Alloc(st))

\* A conversion that returns Boolean objects other than TRUE and FALSE.
\* SingletonBooleans tells the two apart.
nativeBoolToBooleanObjectOther(input) ==
    [type |-> "BOOLEAN", id |-> 0, BoolValue |-> input]

nativeBoolToBooleanObject(input) == IF input THEN TRUE_ ELSE FALSE_

\* A truthiness in which the integer 0 is falsy, as in C.
\* Truthiness tells the two apart.
isTruthyZeroFalsy(obj) ==
    CASE SameObject(obj, NULL) -> FALSE
      [] SameObject(obj, TRUE_) -> TRUE
      [] SameObject(obj, FALSE_) -> FALSE
      [] obj.type = "INTEGER" -> obj.IntValue # 0
      [] OTHER -> TRUE

isTruthy(obj) ==
    CASE SameObject(obj, NULL) -> FALSE
      [] SameObject(obj, TRUE_) -> TRUE
      [] SameObject(obj, FALSE_) -> FALSE
      [] OTHER -> TRUE

evalBangOperatorExpression(right) ==
    CASE SameObject(right, TRUE_) -> FALSE_
      [] SameObject(right, FALSE_) -> TRUE_
      [] SameObject(right, NULL) -> TRUE_
      [] OTHER -> FALSE_

evalMinusPrefixOperatorExpression(right, st) ==
    CASE right.type = "nil" -> Panic(st, "nil pointer dereference")
      [] right.type \notin {"nil", "INTEGER"} ->
           newError("unknown operator: -" \o right.type, st)
      [] OTHER -> R(Integer(st.nobj, 0 - right.IntValue), Alloc(st))

evalPrefixExpression(operator, right, st) ==
    CASE operator = "!" -> R(evalBangOperatorExpression(right), st)
      [] operator = "-" -> evalMinusPrefixOperatorExpression(right, st)
      [] OTHER ->
           IF right.type = "nil" THEN Panic(st, "nil pointer dereference")
           ELSE newError("unknown operator: " \o operator \o right.type, st)

\* A division that rounds toward minus infinity.
\* IntegerOperators tells the two apart.
QuotientFloor(a, b) == IF b < 0 THEN (0 - a) \div (0 - b) ELSE a \div b

\* Go's integer division truncates toward zero.
Quotient(a, b) ==
    LET abs(x) == IF x < 0 THEN 0 - x ELSE x
        q == abs(a) \div abs(b)
    IN IF (a < 0) # (b < 0) THEN 0 - q ELSE q

evalIntegerInfixExpression(operator, left, right, st) ==
    LET leftVal == left.IntValue
        rightVal == right.IntValue
    IN CASE operator = "+" -> R(Integer(st.nobj, leftVal + rightVal), Alloc(st))
         [] operator = "-" -> R(Integer(st.nobj, leftVal - rightVal), Alloc(st))
         [] operator = "*" -> R(Integer(st.nobj, leftVal * rightVal), Alloc(st))
         [] operator = "/" ->
              IF rightVal = 0 THEN Panic(st, "integer divide by zero")
              ELSE R(Integer(st.nobj, Quotient(leftVal, rightVal)), Alloc(st))
         [] operator = "<" -> R(nativeBoolToBooleanObject(leftVal < rightVal), st)
         [] operator = ">" -> R(nativeBoolToBooleanObject(leftVal > rightVal), st)
         [] operator = "==" -> R(nativeBoolToBooleanObject(leftVal = rightVal), st)
         [] operator = "!=" -> R(nativeBoolToBooleanObject(leftVal # rightVal), st)
         [] OTHER ->
              newError("unknown operator: " \o left.type \o " " \o operator
                       \o " " \o right.type, st)

\* The switch calls left.Type() first, and right.Type() only in the cases
\* that read it: on a nil operand that call faults.
evalInfixExpression(operator, left, right, st) ==
    CASE left.type = "nil" -> Panic(st, "nil pointer dereference")
      [] left.type = "INTEGER" /\ right.type = "nil" ->
           Panic(st, "nil pointer dereference")
      [] left.type = "INTEGER" /\ right.type = "INTEGER" ->
           evalIntegerInfixExpression(operator, left, right, st)
      [] OTHER ->
           CASE operator = "==" ->
                  R(nativeBoolToBooleanObject(SameObject(left, right)), st)
             [] operator = "!=" ->
                  R(nativeBoolToBooleanObject(~SameObject(left, right)), st)
             [] OTHER ->
                  CASE right.type = "nil" -> Panic(st, "nil pointer dereference")
                    [] right.type # "nil" /\ left.type # right.type ->
                         newError("type mismatch: " \o left.type \o " " \o operator
                                  \o " " \o right.type, st)
                    [] OTHER ->
                         newError("unknown operator: " \o left.type \o " "
                                  \o operator \o " " \o right.type, st)

evalIdentifier(node, env, st) ==
    LET got == Get(st.envs, env, node.Value)
    IN IF ~got.ok THEN newError("identifier not found: " \o node.Value, st)
       ELSE R(got.obj, st)

unwrapReturnValue(obj) ==
    IF obj.type = "RETURN_VALUE" THEN obj.Wrapped ELSE obj

\* for paramIdx, param := range fn.Parameters { env.Set(param.Value, args[paramIdx]) }
RECURSIVE bindParameters(_, _, _, _, _)
bindParameters(params, args, i, env, st) ==
    CASE i > Len(params) -> [env |-> env, st |-> st]
      [] i <= Len(params) /\ i > Len(args) ->
           [env |-> env, st |-> [st EXCEPT !.fault = "index out of range"]]
      [] OTHER ->
           bindParameters(params, args, i + 1, env,
               [st EXCEPT !.envs = Set(@, env, params[i].Value, args[i])])

\* An extendFunctionEnv that binds the parameters in the captured environment
\* itself instead of a new one enclosing it.  LexicalClosures tells the two
\* apart.
extendFunctionEnvInPlace(fn, args, st) ==
    bindParameters(fn.Parameters, args, 1, fn.Env, st)

extendFunctionEnv(fn, args, st) ==
    LET e == NewEnclosedEnvironment(fn.Env, st)
    IN bindParameters(fn.Parameters, args, 1, e.env, e.st)

\* The body runs one application deeper; MaxCallDepth applications exhaust
\* the host stack.
applyFunction(fn, args, st) ==
    CASE fn.type = "nil" -> Panic(st, "nil pointer dereference")
      [] fn.type \notin {"nil", "FUNCTION"} ->
           newError("not a function: " \o fn.type, st)
      [] fn.type = "FUNCTION" /\ st.depth >= MaxCallDepth ->
           Panic(st, "stack overflow")
      [] OTHER ->
           LET extendedEnv == extendFunctionEnv(fn, args, [st EXCEPT !.depth = @ + 1])
               evaluated == Eval(fn.Body, extendedEnv.env, extendedEnv.st)
           IN CASE extendedEnv.st.fault # "" -> extendedEnv.st
                [] evaluated.fault # "" -> evaluated
                [] OTHER -> [evaluated EXCEPT !.val = unwrapReturnValue(@),
                                              !.depth = st.depth,
                                              !.calls = Append(@,
                                                  [before |-> st.envs,
                                                   after |-> evaluated.envs])]

\* An evalExpressions that evaluates the expressions from the last to the
\* first.  OperandsLeftToRight tells the two apart.
evalExpressionsBackwards(exps, i, env, res, st) ==
    IF i > Len(exps) THEN [vals |-> res, st |-> st]
    ELSE LET evaluated == Eval(exps[Len(exps) + 1 - i], env, st)
         IN CASE evaluated.fault # "" -> [vals |-> <<>>, st |-> evaluated]
              [] isError(evaluated.val) ->
                   [vals |-> <<evaluated.val>>, st |-> evaluated]
              [] OTHER ->
                   evalExpressionsBackwards(exps, i + 1, env,
                                            <<evaluated.val>> \o res, evaluated)

\* for _, e := range exps: the loop of evalExpressions from its i-th element.
evalExpressionsFrom(exps, i, env, res, st) ==
    IF i > Len(exps) THEN [vals |-> res, st |-> st]
    ELSE LET evaluated == Eval(exps[i], env, st)
         IN CASE evaluated.fault # "" -> [vals |-> <<>>, st |-> evaluated]
              [] isError(evaluated.val) ->
                   [vals |-> <<evaluated.val>>, st |-> evaluated]
              [] OTHER ->
                   evalExpressionsFrom(exps, i + 1, env,
                                       Append(res, evaluated.val), evaluated)

evalExpressions(exps, env, st) == evalExpressionsFrom(exps, 1, env, <<>>, st)

\* for _, statement := range statements: the loop of evalBlockStatement.
evalBlockStatementFrom(statements, i, env, res, st) ==
    IF i > Len(statements) THEN R(res, st)
    ELSE LET r == Eval(statements[i], env, st)
         IN CASE r.fault # "" -> r
              [] r.val.type \in {"RETURN_VALUE", "ERROR"} -> r
              [] OTHER -> evalBlockStatementFrom(statements, i + 1, env, r.val, r)

evalBlockStatement(statements, env, st) ==
    evalBlockStatementFrom(statements, 1, env, nil, st)

\* evalProgram without its unwrapping: it hands a ReturnValue to its caller
\* as evalBlockStatement does.  ProgramResult tells the two apart.
evalProgramKeepsWrapper(statements, i, env, res, st) ==
    IF i > Len(statements) THEN R(res, st)
    ELSE LET r == Eval(statements[i], env, st)
         IN CASE r.fault # "" -> r
              [] r.val.type \in {"RETURN_VALUE", "ERROR"} -> r
              [] OTHER -> evalProgramFrom(statements, i + 1, env, r.val, r)

\* for _, statement := range actual.Statements: the loop of evalProgram.
evalProgramFrom(statements, i, env, res, st) ==
    IF i > Len(statements) THEN R(res, st)
    ELSE LET r == Eval(statements[i], env, st)
         IN CASE r.fault # "" -> r
              [] r.val.type = "RETURN_VALUE" -> R(r.val.Wrapped, r)
              [] r.val.type = "ERROR" -> r
              [] OTHER -> evalProgramFrom(statements, i + 1, env, r.val, r)

evalProgram(actual, env, st) == evalProgramFrom(actual.Statements, 1, env, nil, st)

\* An evalIfExpression that evaluates the chosen block in a new environment
\* enclosed by env.  BlocksShareScope tells the two apart.
evalIfExpressionScoped(ie, env, st) ==
    LET condition == Eval(ie.Condition, env, st)
        scope == NewEnclosedEnvironment(env, condition)
    IN CASE condition.fault # "" -> condition
         [] isTruthy(condition.val) -> Eval(ie.Consequence, scope.env, scope.st)
         [] ie.Alternative.node # "nil" -> Eval(ie.Alternative, scope.env, scope.st)
         [] OTHER -> R(NULL, condition)

evalIfExpression(ie, env, st) ==
    LET condition == Eval(ie.Condition, env, st)
    IN CASE condition.fault # "" -> condition
         [] isTruthy(condition.val) -> Eval(ie.Consequence, env, condition)
         [] ie.Alternative.node # "nil" -> Eval(ie.Alternative, env, condition)
         [] OTHER -> R(NULL, condition)

\* A call of Eval that returns is recorded: the node, the environment it was
\* evaluated in and the value returned.  A fault unwinds past it.
Returned(node, env, r) ==
    IF r.fault # "" THEN r
    ELSE [r EXCEPT !.log = Append(@, [at |-> node.at, kind |-> node.node,
                                      env |-> env, val |-> r.val])]

Eval(node, env, st) ==
    CASE node.node = "Program" -> Returned(node, env, evalProgram(node, env, st))
      [] node.node = "ExpressionStatement" ->
           Returned(node, env, Eval(node.Expression, env, st))
      [] node.node = "IntegerLiteral" ->
           Returned(node, env, R(Integer(st.nobj, node.IntValue), Alloc(st)))
      [] node.node = "Boolean" ->
           Returned(node, env, R(nativeBoolToBooleanObject(node.BoolValue), st))
      [] node.node = "PrefixExpression" ->
           LET right == Eval(node.Right, env, st)
           IN CASE right.fault # "" -> right
                [] isError(right.val) -> Returned(node, env, right)
                [] OTHER ->
                     Returned(node, env,
                              evalPrefixExpression(node.Operator, right.val, right))
      [] node.node = "InfixExpression" ->
           LET left == Eval(node.Left, env, st)
               right == Eval(node.Right, env, left)
           IN CASE left.fault # "" -> left
                [] isError(left.val) -> Returned(node, env, left)
                [] right.fault # "" -> right
                [] isError(right.val) -> Returned(node, env, right)
                [] OTHER ->
                     Returned(node, env,
                              evalInfixExpression(node.Operator, left.val,
                                                  right.val, right))
      [] node.node = "BlockStatement" ->
           Returned(node, env, evalBlockStatement(node.Statements, env, st))
      [] node.node = "IfExpression" ->
           Returned(node, env, evalIfExpression(node, env, st))
      [] node.node = "ReturnStatement" ->
           LET val == Eval(node.ReturnValue, env, st)
           IN CASE val.fault # "" -> val
                [] isError(val.val) -> Returned(node, env, val)
                [] OTHER ->
                     Returned(node, env, R(ReturnValue(val.nobj, val.val), Alloc(val)))
      [] node.node = "LetStatement" ->
           LET val == Eval(node.LetValue, env, st)
           IN CASE val.fault # "" -> val
                [] isError(val.val) -> Returned(node, env, val)
                [] OTHER ->
                     Returned(node, env,
                              [val EXCEPT !.envs = Set(@, env, node.Name.Value, val.val),
                                          !.val = nil])
      [] node.node = "Identifier" -> Returned(node, env, evalIdentifier(node, env, st))
      [] node.node = "FunctionLiteral" ->
           Returned(node, env,
                    R(Function(st.nobj, node.Parameters, node.Body, env), Alloc(st)))
      [] node.node = "CallExpression" ->
           LET function == Eval(node.Function, env, st)
               args == evalExpressions(node.Arguments, env, function)
           IN CASE function.fault # "" -> function
                [] isError(function.val) -> Returned(node, env, function)
                [] args.st.fault # "" -> args.st
                [] Len(args.vals) = 1 /\ isError(args.vals[1]) ->
                     Returned(node, env, R(args.vals[1], args.st))
                [] OTHER ->
                     Returned(node, env,
                              applyFunction(function.val, args.vals, args.st))
      [] OTHER -> Returned(node, env, R(nil, st))

(***************************************************************************)
(* The programs evaluated.  Each is a tree the parser builds with zero     *)
(* errors; the concrete syntax is given beside it.                         *)
(***************************************************************************)
Lit(v) == IntegerLiteral(v)
Id(name) == Identifier(name)
Stmt(e) == ExpressionStatement(e)
Block(stmts) == BlockStatement(stmts)
Not(e) == PrefixExpression("!", e)
Neg(e) == PrefixExpression("-", e)
Fn1(param, stmts) == FunctionLiteral(<<Identifier(param)>>, Block(stmts))
Fn0(stmts) == FunctionLiteral(<<>>, Block(stmts))
Call1(f, arg) == CallExpression(f, <<arg>>)
Call0(f) == CallExpression(f, <<>>)
IfThen(c, stmts) == IfExpression(c, Block(stmts), NoNode)
IfElse(c, stmts, alts) == IfExpression(c, Block(stmts), Block(alts))

\* The statements the generated programs are made of.
Alphabet ==
    { Stmt(Lit(1)),                                       \* 1;
      Stmt(Id("a")),                                      \* a;
      Stmt(StringLiteral("s")),                           \* "s";
      LetStatement("a", Lit(0)),                          \* let a = 0;
      LetStatement("a", Boolean(FALSE)),                  \* let a = false;
      LetStatement("a", IfThen(Boolean(FALSE), <<Stmt(Lit(1))>>)),
                                                          \* let a = if (false) { 1 };
      LetStatement("a", IfThen(Boolean(TRUE), <<>>)),     \* let a = if (true) { };
      LetStatement("a", Id("b")),                         \* let a = b;
      ReturnStatement(Lit(2)),                            \* return 2;
      ReturnStatement(Id("b")),                           \* return b;
      Stmt(Not(Id("a"))),                                 \* !a;
      Stmt(Neg(Id("a"))),                                 \* -a;
      Stmt(InfixExpression(Id("a"), "+", Lit(1))),        \* a + 1;
      Stmt(InfixExpression(Lit(1), "<", Id("b"))),        \* 1 < b;
      Stmt(InfixExpression(Id("a"), "==", Boolean(FALSE))), \* a == false;
      Stmt(IfElse(Id("a"), <<Stmt(Not(Not(Id("a"))))>>, <<Stmt(Not(Not(Id("a"))))>>)),
                                                          \* if (a) { !!a } else { !!a };
      Stmt(IfThen(Id("a"), <<Stmt(Lit(10))>>)),           \* if (a) { 10 };
      Stmt(IfThen(InfixExpression(Lit(10), ">", Lit(1)),
             <<Stmt(IfThen(InfixExpression(Lit(10), ">", Lit(1)),
                      <<ReturnStatement(Lit(10))>>)),
               ReturnStatement(Lit(1))>>)),
                          \* if (10 > 1) { if (10 > 1) { return 10; } return 1; }
      LetStatement("a", IfThen(Boolean(TRUE), <<ReturnStatement(Lit(3))>>)),
                                                 \* let a = if (true) { return 3; };
      ReturnStatement(IfThen(Boolean(TRUE), <<ReturnStatement(Lit(1))>>)),
                                                 \* return if (true) { return 1; };
      LetStatement("f", Fn1("x", <<Stmt(IfThen(Id("x"), <<ReturnStatement(Lit(1))>>)),
                                   Stmt(Id("a"))>>)),
                                     \* let f = fn(x) { if (x) { return 1; } a };
      LetStatement("f", Fn1("a", <<ReturnStatement(
                                     IfThen(Id("a"), <<ReturnStatement(Id("a"))>>))>>)),
                                     \* let f = fn(a) { return if (a) { return a; }; };
      LetStatement("f", Fn1("x", <<LetStatement("a", Id("x")),
                                   Stmt(Call1(Id("f"), Id("b")))>>)),
                                     \* let f = fn(x) { let a = x; f(b) };
      Stmt(Call1(Id("f"), Id("a"))),                      \* f(a);
      Stmt(Call1(Id("f"), Lit(1))),                       \* f(1);
      Stmt(Call1(Id("a"), Lit(1))),                       \* a(1);
      LetStatement("a", Call1(Id("f"), Boolean(TRUE)))    \* let a = f(true);
    }

Generated ==
    UNION { { Program(ss) : ss \in [1..n -> Alphabet] } : n \in 0..MaxStmts }

\* let newAdder = fn(x) { fn(y) { x + y } }; let addTwo = newAdder(2); <last>
NewAdder(prefix, last) ==
    Program(prefix \o
      << LetStatement("newAdder",
             Fn1("x", <<Stmt(Fn1("y", <<Stmt(InfixExpression(Id("x"), "+", Id("y")))>>))>>)),
         LetStatement("addTwo", Call1(Id("newAdder"), Lit(2))),
         last >>)

\* let counter = fn(x) { if (x > CounterLimit) { return true; }
\*                       else { counter(x + 1); } }; counter(0)
Counter ==
    Program(
      << LetStatement("counter",
             Fn1("x", <<Stmt(IfElse(InfixExpression(Id("x"), ">", Lit(CounterLimit)),
                               <<ReturnStatement(Boolean(TRUE))>>,
                               <<Stmt(Call1(Id("counter"),
                                        InfixExpression(Id("x"), "+", Lit(1))))>>))>>)),
         Stmt(Call1(Id("counter"), Lit(0))) >>)

\* The closure scenario, with x unbound, bound to 10 and bound to 100 where
\* addTwo is called.
NewAdderPrograms ==
    { NewAdder(<<>>, Stmt(Call1(Id("addTwo"), Lit(3)))),
      \* let x = 10; ...; addTwo(3)
      NewAdder(<<LetStatement("x", Lit(10))>>, Stmt(Call1(Id("addTwo"), Lit(3)))),
      \* ...; fn(x) { addTwo(3) }(100)
      NewAdder(<<>>, Stmt(Call1(Fn1("x", <<Stmt(Call1(Id("addTwo"), Lit(3)))>>),
                                Lit(100)))) }

\* The operators the parser has an infix parse function for.
Operators == {"+", "-", "*", "/", "<", ">", "==", "!="}

\* Operand expressions: 0, 2, 7, -7, true, false, a null (if (false) { 1 }),
\* a function (fn() { }) and a string ("Hello").
Operands ==
    { Lit(0), Lit(2), Lit(7), Neg(Lit(7)), Boolean(TRUE), Boolean(FALSE),
      IfThen(Boolean(FALSE), <<Stmt(Lit(1))>>), Fn0(<<>>), StringLiteral("Hello") }

\* <left> <operator> <right>
InfixPrograms ==
    { Program(<<Stmt(InfixExpression(l, op, r))>>) :
          l \in Operands, op \in Operators, r \in Operands }

\* fn(<N parameters>) { 1 }(<M arguments>), for N and M from 0 to 2.
ArityPrograms ==
    { Program(<<Stmt(CallExpression(FunctionLiteral(params, Block(<<Stmt(Lit(1))>>)),
                                    args))>>) :
          params \in {<<>>, <<Id("x")>>, <<Id("x"), Id("y")>>},
          args \in {<<>>, <<Lit(1)>>, <<Lit(1), Lit(2)>>} }

\* "Hello"   and   "Hello" + " World"
StringPrograms ==
    { Program(<<Stmt(StringLiteral("Hello"))>>),
      Program(<<Stmt(InfixExpression(StringLiteral("Hello"), "+",
                                     StringLiteral(" World")))>>) }

\* let x = 1; let f = fn() { let x = 2; x }; f(); x
ShadowingCall ==
    Program(<< LetStatement("x", Lit(1)),
               LetStatement("f", Fn0(<<LetStatement("x", Lit(2)), Stmt(Id("x"))>>)),
               Stmt(Call0(Id("f"))), Stmt(Id("x")) >>)

\* if (true) { let a = 1; }; a
LetInIfBlock ==
    Program(<< Stmt(IfThen(Boolean(TRUE), <<LetStatement("a", Lit(1))>>)),
               Stmt(Id("a")) >>)

\* let a = 0; if (true) { let a = 1; }; a
LetInIfBlockAgain ==
    Program(<< LetStatement("a", Lit(0)),
               Stmt(IfThen(Boolean(TRUE), <<LetStatement("a", Lit(1))>>)),
               Stmt(Id("a")) >>)

\* Lets inside the blocks of if expressions.
BlockPrograms ==
    { LetInIfBlock, LetInIfBlockAgain,
      \* if (false) { } else { let a = 2; }; a
      Program(<< Stmt(IfElse(Boolean(FALSE), <<>>, <<LetStatement("a", Lit(2))>>)),
                 Stmt(Id("a")) >>),
      \* if (true) { if (true) { let a = 3; } a }
      Program(<< Stmt(IfThen(Boolean(TRUE),
                   <<Stmt(IfThen(Boolean(TRUE), <<LetStatement("a", Lit(3))>>)),
                     Stmt(Id("a"))>>)) >>),
      \* let f = fn() { if (true) { let a = 4; } a }; f(); a
      Program(<< LetStatement("f", Fn0(<<Stmt(IfThen(Boolean(TRUE),
                                                <<LetStatement("a", Lit(4))>>)),
                                         Stmt(Id("a"))>>)),
                 Stmt(Call0(Id("f"))), Stmt(Id("a")) >>) }

Scenarios ==
    NewAdderPrograms \cup
    { Counter,
      \* let f = fn() { return 1; }; f(); 2
      Program(<< LetStatement("f", Fn0(<<ReturnStatement(Lit(1))>>)),
                 Stmt(Call0(Id("f"))), Stmt(Lit(2)) >>),
      ShadowingCall,
      \* let f = fn(x) { fn() { x } }; let x = 5; f(1)()
      Program(<< LetStatement("f", Fn1("x", <<Stmt(Fn0(<<Stmt(Id("x"))>>))>>)),
                 LetStatement("x", Lit(5)),
                 Stmt(Call0(Call1(Id("f"), Lit(1)))) >>),
      \* let f = fn(x) { f(x) }; f(1)
      Program(<< LetStatement("f", Fn1("x", <<Stmt(Call1(Id("f"), Id("x")))>>)),
                 Stmt(Call1(Id("f"), Lit(1))) >>),
      \* let f = fn() { g() }; let g = fn() { 7 }; f()
      Program(<< LetStatement("f", Fn0(<<Stmt(Call0(Id("g")))>>)),
                 LetStatement("g", Fn0(<<Stmt(Lit(7))>>)),
                 Stmt(Call0(Id("f"))) >>),
      \* let a = 5; let b = a > 3; let c = a * 99; if (b) { 10 } else { 1 };
      Program(<< LetStatement("a", Lit(5)),
                 LetStatement("b", InfixExpression(Id("a"), ">", Lit(3))),
                 LetStatement("c", InfixExpression(Id("a"), "*", Lit(99))),
                 Stmt(IfElse(Id("b"), <<Stmt(Lit(10))>>, <<Stmt(Lit(1))>>)) >>)
    }

\* let f = fn(x, y) { x }; <last>
WithTwoParameters(last) ==
    Program(<< LetStatement("f", FunctionLiteral(<<Id("x"), Id("y")>>,
                                                 Block(<<Stmt(Id("x"))>>))),
               last >>)

\* -a * b
NegATimesBProgram == Program(<<Stmt(InfixExpression(Neg(Id("a")), "*", Id("b")))>>)

\* Programs whose operands and arguments tell the order of evaluation.
OrderPrograms ==
    { NegATimesBProgram,
      \* a + b
      Program(<<Stmt(InfixExpression(Id("a"), "+", Id("b")))>>),
      \* (1 + 2) * (3 - a)
      Program(<<Stmt(InfixExpression(InfixExpression(Lit(1), "+", Lit(2)), "*",
                                     InfixExpression(Lit(3), "-", Id("a"))))>>),
      \* g(a)
      Program(<<Stmt(Call1(Id("g"), Id("a")))>>),
      \* let a = b; a
      Program(<<LetStatement("a", Id("b")), Stmt(Id("a"))>>),
      \* let a = 1; let a = b;
      Program(<<LetStatement("a", Lit(1)), LetStatement("a", Id("b"))>>),
      \* ...; f(1 + 2, 3 * 4)
      WithTwoParameters(Stmt(CallExpression(Id("f"),
          <<InfixExpression(Lit(1), "+", Lit(2)),
            InfixExpression(Lit(3), "*", Lit(4))>>))),
      \* ...; f(a, b)
      WithTwoParameters(Stmt(CallExpression(Id("f"), <<Id("a"), Id("b")>>))),
      \* ...; f(1, b, c)
      WithTwoParameters(Stmt(CallExpression(Id("f"), <<Lit(1), Id("b"), Id("c")>>))),
      \* ...; let a = f(b, 1);
      WithTwoParameters(LetStatement("a", CallExpression(Id("f"), <<Id("b"), Lit(1)>>))) }

\* (1 < 2) == true
LessIsTrue ==
    Program(<<Stmt(InfixExpression(InfixExpression(Lit(1), "<", Lit(2)), "==",
                                   Boolean(TRUE)))>>)
\* (1 > 2) == false
GreaterIsFalse ==
    Program(<<Stmt(InfixExpression(InfixExpression(Lit(1), ">", Lit(2)), "==",
                                   Boolean(FALSE)))>>)

\* Comparisons of Booleans and nulls that were computed, not written.
BooleanPrograms ==
    { LessIsTrue, GreaterIsFalse,
      \* (1 < 2) != (2 > 1)
      Program(<<Stmt(InfixExpression(InfixExpression(Lit(1), "<", Lit(2)), "!=",
                                     InfixExpression(Lit(2), ">", Lit(1))))>>),
      \* !true == false
      Program(<<Stmt(InfixExpression(Not(Boolean(TRUE)), "==", Boolean(FALSE)))>>),
      \* (1 == 1) != !false
      Program(<<Stmt(InfixExpression(InfixExpression(Lit(1), "==", Lit(1)), "!=",
                                     Not(Boolean(FALSE))))>>),
      \* let a = 1 < 2; a == !(2 != 2)
      Program(<<LetStatement("a", InfixExpression(Lit(1), "<", Lit(2))),
                Stmt(InfixExpression(Id("a"), "==",
                         Not(InfixExpression(Lit(2), "!=", Lit(2)))))>>),
      \* if (false) { 1 } == if (1 > 2) { 2 }
      Program(<<Stmt(InfixExpression(IfThen(Boolean(FALSE), <<Stmt(Lit(1))>>), "==",
                         IfThen(InfixExpression(Lit(1), ">", Lit(2)),
                                <<Stmt(Lit(2))>>)))>>) }

Programs ==
    { Locate(p, <<>>) :
        p \in Generated \cup Scenarios \cup InfixPrograms \cup ArityPrograms
              \cup StringPrograms \cup OrderPrograms \cup BooleanPrograms
              \cup BlockPrograms }

(***************************************************************************)
(* token and parser.  The lexer is read as the sequence of tokens it       *)
(* yields before EOF; after them it yields EOF for ever.  The parser is    *)
(* the record ps:                                                          *)
(*   toks    the tokens of the input                                       *)
(*   pos     curToken is the pos-th token, peekToken the next              *)
(*   errors  the messages recorded so far                                  *)
(* and every parse function returns the node it built (NoNode for nil)     *)
(* with the parser it leaves behind.                                       *)
(***************************************************************************)
Token(type, literal) == [Type |-> type, Literal |-> literal]

EOF == Token("EOF", "")

LOWEST == 1
EQUALS == 2
LESSGREATER == 3
SUM == 4
PRODUCT == 5
PREFIX == 6
CALL == 7

precedences ==
    [t \in {"==", "!=", "<", ">", "+", "-", "/", "*", "("} |->
        CASE t \in {"==", "!="} -> EQUALS
          [] t \in {"<", ">"} -> LESSGREATER
          [] t \in {"+", "-"} -> SUM
          [] t \in {"/", "*"} -> PRODUCT
          [] t = "(" -> CALL]

\* The token types a prefix parse function is registered for.
prefixParseFns ==
    {"IDENT", "INT", "IF", "FUNCTION", "STRING", "[", "!", "-", "TRUE", "FALSE", "("}

\* The token types an infix parse function is registered for.
infixParseFns == {"+", "-", "/", "*", "==", "!=", "<", ">", "("}

\* New reads two tokens: curToken is the first token of the input.
\* "peeks" is the record of the calls of expectPeek, in order.
New(l) == [toks |-> l, pos |-> 1, errors |-> <<>>, peeks |-> <<>>]

TokenAt(ps, i) == IF i <= Len(ps.toks) THEN ps.toks[i] ELSE EOF

curToken(ps) == TokenAt(ps, ps.pos)

peekToken(ps) == TokenAt(ps, ps.pos + 1)

nextToken(ps) == [ps EXCEPT !.pos = @ + 1]

curTokenIs(t, ps) == curToken(ps).Type = t

peekTokenIs(t, ps) == peekToken(ps).Type = t

\* A failed expectation that records nothing.
peekErrorSilent(t, ps) == ps

\* msg := fmt.Sprintf(...); p.errors = append(p.errors, msg)
peekError(t, ps) ==
    [ps EXCEPT !.errors =
        Append(@, "expectedBool next token to be " \o t \o ", got "
                  \o peekToken(ps).Type \o " instead")]

\* The call of expectPeek that has just returned, for the record.
Peeked(t, before, ok, after) ==
    [after EXCEPT !.peeks =
        Append(@, [want |-> t, ok |-> ok, got |-> peekToken(before).Type,
                   pos |-> before.pos, posAfter |-> after.pos,
                   errors |-> before.errors, errorsAfter |-> after.errors])]

expectPeek(t, ps) ==
    IF peekTokenIs(t, ps)
    THEN [ok |-> TRUE, ps |-> Peeked(t, ps, TRUE, nextToken(ps))]
    ELSE [ok |-> FALSE, ps |-> Peeked(t, ps, FALSE, peekError(t, ps))]

noPrefixParseFnError(t, ps) ==
    [ps EXCEPT !.errors = Append(@, "no prefix parse function for " \o t \o " found")]

peekPrecedence(ps) ==
    IF peekToken(ps).Type \in DOMAIN precedences
    THEN precedences[peekToken(ps).Type] ELSE LOWEST

curPrecedence(ps) ==
    IF curToken(ps).Type \in DOMAIN precedences
    THEN precedences[curToken(ps).Type] ELSE LOWEST

\* The characters of the INT literals of the inputs, as digits.
Digits ==
    [lit \in {"0", "1", "2", "3", "5", "7", "8", "10", "00", "08", "010", "017",
              "0010", "9223372036854775808"} |->
        CASE lit = "0" -> <<0>> [] lit = "1" -> <<1>> [] lit = "2" -> <<2>>
          [] lit = "3" -> <<3>> [] lit = "5" -> <<5>> [] lit = "7" -> <<7>>
          [] lit = "8" -> <<8>> [] lit = "10" -> <<1, 0>> [] lit = "00" -> <<0, 0>>
          [] lit = "08" -> <<0, 8>> [] lit = "010" -> <<0, 1, 0>>
          [] lit = "017" -> <<0, 1, 7>> [] lit = "0010" -> <<0, 0, 1, 0>>
          [] lit = "9223372036854775808" ->
               <<9, 2, 2, 3, 3, 7, 2, 0, 3, 6, 8, 5, 4, 7, 7, 5, 8, 0, 8>>]

\* The digits of 1<<63 - 1 in base 10 and in base 8.
MaxInt64Digits(base) ==
    IF base = 10 THEN <<9, 2, 2, 3, 3, 7, 2, 0, 3, 6, 8, 5, 4, 7, 7, 5, 8, 0, 7>>
    ELSE [i \in 1..21 |-> 7]

RECURSIVE StripZeros(_)
StripZeros(ds) == IF ds # <<>> /\ ds[1] = 0 THEN StripZeros(Tail(ds)) ELSE ds

\* ds > ms as numbers, neither with a leading zero.
Exceeds(ds, ms) ==
    \/ Len(ds) > Len(ms)
    \/ /\ Len(ds) = Len(ms)
       /\ \E i \in 1..Len(ds) :
              /\ ds[i] > ms[i]
              /\ \A j \in 1..(i - 1) : ds[j] = ms[j]

RECURSIVE ValueOf(_, _, _)
ValueOf(ds, base, acc) ==
    IF ds = <<>> THEN acc ELSE ValueOf(Tail(ds), base, acc * base + ds[1])

\* strconv.ParseInt(s, 0, 64) on a string of decimal digits: a leading 0
\* followed by more digits selects base 8.
ParseInt(ds) ==
    LET base == IF Len(ds) > 1 /\ ds[1] = 0 THEN 8 ELSE 10
        body == IF base = 8 THEN Tail(ds) ELSE ds
    IN CASE \E i \in 1..Len(body) : body[i] >= base ->
              [err |-> "invalid syntax", n |-> 0]
         [] Exceeds(StripZeros(body), MaxInt64Digits(base)) ->
              [err |-> "value out of range", n |-> 0]
         [] OTHER -> [err |-> "", n |-> ValueOf(body, base, 0)]

P(n, ps) == [node |-> n, ps |-> ps]

RECURSIVE parseExpression(_, _)
RECURSIVE parseStatement(_)
RECURSIVE parseBlockStatement(_)
RECURSIVE parseExpressionList(_, _)

parseIdentifier(ps) == P(Identifier(curToken(ps).Literal), ps)

parseIntegerLiteral(ps) ==
    LET parsed == ParseInt(Digits[curToken(ps).Literal])
    IN IF parsed.err # ""
       THEN P(NoNode, [ps EXCEPT !.errors =
                Append(@, "could not parse \"" \o curToken(ps).Literal
                          \o "\" as integer")])
       ELSE P(IntegerLiteral(parsed.n), ps)

parseBoolean(ps) == P(Boolean(curToken(ps).Literal = "true"), ps)

parseStringLiteral(ps) == P(StringLiteral(curToken(ps).Literal), ps)

\* The parse functions below are sequences of steps, each of which uses the
\* results of the steps before it.  A step is written as a local operator
\* whose parameters are those results, the last step first.
parseGroupedExpression(ps) ==
    LET closing(expression, closed) ==
            IF ~closed.ok THEN P(NoNode, closed.ps)
            ELSE P(expression.node, closed.ps)
        grouped(expression) == closing(expression, expectPeek(")", expression.ps))
    IN grouped(parseExpression(LOWEST, nextToken(ps)))

\* parsePrefixExpression parsing its operand at the lowest precedence, so
\* that the operand takes in the binary operators after it.
\* UnaryAndCallBinding tells the two apart.
parsePrefixExpressionLowest(ps) ==
    LET withRight(right) ==
            P(PrefixExpression(curToken(ps).Literal, right.node), right.ps)
    IN withRight(parseExpression(LOWEST, nextToken(ps)))

parsePrefixExpression(ps) ==
    LET withRight(right) ==
            P(PrefixExpression(curToken(ps).Literal, right.node), right.ps)
    IN withRight(parseExpression(PREFIX, nextToken(ps)))

\* parseInfixExpression parsing its right operand one level lower, which
\* makes operators of equal precedence group to the right.
\* PrecedenceGrouping tells the two apart.
parseInfixExpressionLower(leftOperand, ps) ==
    LET withRight(right) ==
            P(InfixExpression(leftOperand, curToken(ps).Literal, right.node),
              right.ps)
    IN withRight(parseExpression(curPrecedence(ps) - 1, nextToken(ps)))

parseInfixExpression(leftOperand, ps) ==
    LET withRight(right) ==
            P(InfixExpression(leftOperand, curToken(ps).Literal, right.node),
              right.ps)
    IN withRight(parseExpression(curPrecedence(ps), nextToken(ps)))

parseIfExpression(ps) ==
    LET withAlternative(condition, consequence, alternative) ==
            P(IfExpression(condition.node, consequence.node, alternative.node),
              alternative.ps)
        afterElse(condition, consequence, lbrace) ==
            IF ~lbrace.ok THEN P(NoNode, lbrace.ps)
            ELSE withAlternative(condition, consequence,
                                 parseBlockStatement(lbrace.ps))
        afterConsequence(condition, consequence) ==
            IF peekTokenIs("ELSE", consequence.ps)
            THEN afterElse(condition, consequence,
                           expectPeek("{", nextToken(consequence.ps)))
            ELSE P(IfExpression(condition.node, consequence.node, NoNode),
                   consequence.ps)
        afterLbrace(condition, lbrace) ==
            IF ~lbrace.ok THEN P(NoNode, lbrace.ps)
            ELSE afterConsequence(condition, parseBlockStatement(lbrace.ps))
        afterRparen(condition, rparen) ==
            IF ~rparen.ok THEN P(NoNode, rparen.ps)
            ELSE afterLbrace(condition, expectPeek("{", rparen.ps))
        afterCondition(condition) ==
            afterRparen(condition, expectPeek(")", condition.ps))
        afterLparen(lparen) ==
            IF ~lparen.ok THEN P(NoNode, lparen.ps)
            ELSE afterCondition(parseExpression(LOWEST, nextToken(lparen.ps)))
    IN afterLparen(expectPeek("(", ps))

\* for p.peekTokenIs(token.COMMA): the loop of parseFunctionParameters.
RECURSIVE parseFunctionParametersLoop(_, _)
parseFunctionParametersLoop(identifiers, ps) ==
    LET closing(closed) ==
            IF ~closed.ok THEN [list |-> <<>>, ps |-> closed.ps]
            ELSE [list |-> identifiers, ps |-> closed.ps]
        withNext(at2) ==
            parseFunctionParametersLoop(
                Append(identifiers, Identifier(curToken(at2).Literal)), at2)
    IN IF peekTokenIs(",", ps) THEN withNext(nextToken(nextToken(ps)))
       ELSE closing(expectPeek(")", ps))

parseFunctionParameters(ps) ==
    LET withFirst(at1) ==
            parseFunctionParametersLoop(<<Identifier(curToken(at1).Literal)>>, at1)
    IN IF peekTokenIs(")", ps) THEN [list |-> <<>>, ps |-> nextToken(ps)]
       ELSE withFirst(nextToken(ps))

parseFunctionLiteral(ps) ==
    LET withBody(parameters, body) ==
            P(FunctionLiteral(parameters.list, body.node), body.ps)
        afterLbrace(parameters, lbrace) ==
            IF ~lbrace.ok THEN P(NoNode, lbrace.ps)
            ELSE withBody(parameters, parseBlockStatement(lbrace.ps))
        afterParameters(parameters) ==
            afterLbrace(parameters, expectPeek("{", parameters.ps))
        afterLparen(lparen) ==
            IF ~lparen.ok THEN P(NoNode, lparen.ps)
            ELSE afterParameters(parseFunctionParameters(lparen.ps))
    IN afterLparen(expectPeek("(", ps))

parseCallExpression(expression, ps) ==
    LET withArguments(arguments) ==
            P(CallExpression(expression, arguments.list), arguments.ps)
    IN withArguments(parseExpressionList(")", ps))

parseArrayLiteral(ps) ==
    LET withElements(elements) == P(ArrayLiteral(elements.list), elements.ps)
    IN withElements(parseExpressionList("]", ps))

\* for p.peekTokenIs(token.COMMA): the loop of parseExpressionList.
RECURSIVE parseExpressionListLoop(_, _, _)
parseExpressionListLoop(end, list, ps) ==
    LET closing(closed) ==
            IF ~closed.ok THEN [list |-> <<>>, ps |-> closed.ps]
            ELSE [list |-> list, ps |-> closed.ps]
        withNext(e) == parseExpressionListLoop(end, Append(list, e.node), e.ps)
    IN IF peekTokenIs(",", ps)
       THEN withNext(parseExpression(LOWEST, nextToken(nextToken(ps))))
       ELSE closing(expectPeek(end, ps))

parseExpressionList(end, ps) ==
    LET withFirst(e) == parseExpressionListLoop(end, <<e.node>>, e.ps)
    IN IF peekTokenIs(end, ps) THEN [list |-> <<>>, ps |-> nextToken(ps)]
       ELSE withFirst(parseExpression(LOWEST, nextToken(ps)))

\* prefix := p.prefixParseFns[p.curToken.Type]; prefix()
prefix(ps) ==
    LET t == curToken(ps).Type
    IN CASE t = "IDENT" -> parseIdentifier(ps)
         [] t = "INT" -> parseIntegerLiteral(ps)
         [] t = "IF" -> parseIfExpression(ps)
         [] t = "FUNCTION" -> parseFunctionLiteral(ps)
         [] t = "STRING" -> parseStringLiteral(ps)
         [] t = "[" -> parseArrayLiteral(ps)
         [] t \in {"!", "-"} -> parsePrefixExpression(ps)
         [] t \in {"TRUE", "FALSE"} -> parseBoolean(ps)
         [] t = "(" -> parseGroupedExpression(ps)

\* infix := p.infixParseFns[p.peekToken.Type]; infix(leftExp)
infix(leftExp, ps) ==
    IF curToken(ps).Type = "(" THEN parseCallExpression(leftExp, ps)
    ELSE parseInfixExpression(leftExp, ps)

\* for !p.peekTokenIs(token.SEMICOLON) && precedence < p.peekPrecedence()
RECURSIVE parseExpressionLoop(_, _)
parseExpressionLoop(precedence, leftExp) ==
    IF ~peekTokenIs(";", leftExp.ps) /\ precedence < peekPrecedence(leftExp.ps)
    THEN IF peekToken(leftExp.ps).Type \notin infixParseFns THEN leftExp
         ELSE parseExpressionLoop(precedence,
                                  infix(leftExp.node, nextToken(leftExp.ps)))
    ELSE leftExp

parseExpression(precedence, ps) ==
    IF curToken(ps).Type \notin prefixParseFns
    THEN P(NoNode, noPrefixParseFnError(curToken(ps).Type, ps))
    ELSE parseExpressionLoop(precedence, prefix(ps))

\* if p.peekTokenIs(token.SEMICOLON) { p.nextToken() }
skipSemicolon(ps) == IF peekTokenIs(";", ps) THEN nextToken(ps) ELSE ps

parseLetStatement(ps) ==
    LET withValue(ident, value) ==
            P(LetStatement(curToken(ident.ps).Literal, value.node),
              skipSemicolon(value.ps))
        afterAssign(ident, assign) ==
            IF ~assign.ok THEN P(NilLetStatement, assign.ps)
            ELSE withValue(ident, parseExpression(LOWEST, nextToken(assign.ps)))
        afterIdent(ident) ==
            IF ~ident.ok THEN P(NilLetStatement, ident.ps)
            ELSE afterAssign(ident, expectPeek("=", ident.ps))
    IN afterIdent(expectPeek("IDENT", ps))

parseReturnStatement(ps) ==
    LET withValue(value) ==
            P(ReturnStatement(value.node), skipSemicolon(value.ps))
    IN withValue(parseExpression(LOWEST, nextToken(ps)))

parseExpressionStatement(ps) ==
    LET withExpression(expression) ==
            P(ExpressionStatement(expression.node), skipSemicolon(expression.ps))
    IN withExpression(parseExpression(LOWEST, ps))

parseStatement(ps) ==
    CASE curToken(ps).Type = "LET" -> parseLetStatement(ps)
      [] curToken(ps).Type = "RETURN" -> parseReturnStatement(ps)
      [] OTHER -> parseExpressionStatement(ps)

\* if statement != nil { append }; p.nextToken()
appendStatement(statements, statement) ==
    [list |-> IF statement.node.node # "nil" THEN Append(statements, statement.node)
              ELSE statements,
     ps |-> nextToken(statement.ps)]

\* for !p.curTokenIs(token.RBRACE) && !p.curTokenIs(token.EOF)
RECURSIVE parseBlockStatementLoop(_)
parseBlockStatementLoop(block) ==
    IF ~curTokenIs("}", block.ps) /\ ~curTokenIs("EOF", block.ps)
    THEN parseBlockStatementLoop(appendStatement(block.list, parseStatement(block.ps)))
    ELSE P(BlockStatement(block.list), block.ps)

parseBlockStatement(ps) ==
    parseBlockStatementLoop([list |-> <<>>, ps |-> nextToken(ps)])

\* The body of the loop, where every statement is appended and nothing
\* advances the parser.
ParseProgramStepStuck(prog) ==
    [list |-> Append(prog.list, parseStatement(prog.ps).node),
     ps |-> parseStatement(prog.ps).ps]

\* The body of the loop: stmt := p.parseStatement(); append; p.nextToken()
ParseProgramStep(prog) == appendStatement(prog.list, parseStatement(prog.ps))

\* for p.curToken.Type != token.EOF
RECURSIVE ParseProgramLoop(_)
ParseProgramLoop(prog) ==
    IF curToken(prog.ps).Type # "EOF"
    THEN ParseProgramLoop(ParseProgramStep(prog))
    ELSE P(Program(prog.list), prog.ps)

ParseProgram(ps) == ParseProgramLoop([list |-> <<>>, ps |-> ps])

(***************************************************************************)
(* lexer.  The input is the sequence of its characters; every character    *)
(* of the inputs is one byte long, so positions count characters.  The     *)
(* lexer is the record l:                                                  *)
(*   input         the characters                                          *)
(*   position      the offset of ch (from 0)                               *)
(*   readPosition  the offset of the character after ch                    *)
(*   ch            the current character, NUL at the end of the input      *)
(* A function that returns a value and moves the lexer returns both.       *)
(***************************************************************************)
\* The rune 0: a character an input may hold, and what ch is set to at the
\* end of the input.
NUL == "\\0"

\* utf8.DecodeRuneInString: the size of the rune.
RuneSize(c) == 1

readChar(l) ==
    IF l.readPosition >= Len(l.input)
    THEN [l EXCEPT !.ch = NUL, !.position = l.readPosition,
                   !.readPosition = l.readPosition + 1]
    ELSE [l EXCEPT !.ch = l.input[l.readPosition + 1],
                   !.position = l.readPosition,
                   !.readPosition =
                       l.readPosition + RuneSize(l.input[l.readPosition + 1])]

NewLexer(input) ==
    readChar([input |-> input, position |-> 0, readPosition |-> 0, ch |-> NUL])

peekChar(l) ==
    IF l.readPosition >= Len(l.input) THEN NUL ELSE l.input[l.readPosition + 1]

isLetter(ch) ==
    ch \in {"a", "b", "c", "d", "e", "f", "g", "h", "i", "j", "k", "l", "m",
            "n", "o", "p", "q", "r", "s", "t", "u", "v", "w", "x", "y", "z",
            "A", "B", "C", "D", "E", "F", "G", "H", "I", "J", "K", "L", "M",
            "N", "O", "P", "Q", "R", "S", "T", "U", "V", "W", "X", "Y", "Z",
            "_"}

isDigit(ch) == ch \in {"0", "1", "2", "3", "4", "5", "6", "7", "8", "9"}

\* l.input[from:to]
RECURSIVE Slice(_, _, _)
Slice(input, from, to) ==
    IF from >= to THEN "" ELSE input[from + 1] \o Slice(input, from + 1, to)

RECURSIVE skipWhitespace(_)
skipWhitespace(l) ==
    IF l.ch \in {" ", "\t", "\n", "\r"} THEN skipWhitespace(readChar(l)) ELSE l

\* for isLetter(l.ch) { l.readChar() }
RECURSIVE skipLetters(_)
skipLetters(l) == IF isLetter(l.ch) THEN skipLetters(readChar(l)) ELSE l

\* for isDigit(l.ch) { l.readChar() }
RECURSIVE skipDigits(_)
skipDigits(l) == IF isDigit(l.ch) THEN skipDigits(readChar(l)) ELSE l

\* for { l.readChar(); if l.ch == '"' || l.ch == 0 { break } }
RECURSIVE skipToQuote(_)
skipToQuote(l) ==
    IF readChar(l).ch \in {"\"", NUL} THEN readChar(l) ELSE skipToQuote(readChar(l))

\* The text from offset "from" to where the lexer "at" stands, with it.
Read(from, at) == [literal |-> Slice(at.input, from, at.position), l |-> at]

readIdentifier(l) == Read(l.position, skipLetters(l))

readNumber(l) == Read(l.position, skipDigits(l))

readString(l) == Read(l.position + 1, skipToQuote(l))

\* token.LookupIdent: the keywords.
LookupIdent(ident) ==
    CASE ident = "fn" -> "FUNCTION"
      [] ident = "let" -> "LET"
      [] ident = "true" -> "TRUE"
      [] ident = "false" -> "FALSE"
      [] ident = "if" -> "IF"
      [] ident = "else" -> "ELSE"
      [] ident = "return" -> "RETURN"
      [] OTHER -> "IDENT"

newToken(tokenType, ch) == Token(tokenType, ch)

\* tok with the lexer moved by the l.readChar() that ends NextToken.
Emit(tok, l) == [tok |-> tok, l |-> readChar(l)]

\* NextToken after l.skipWhitespace().
NextTokenAt(l) ==
    CASE l.ch \in {"=", "!"} ->
           IF peekChar(l) = "="
           THEN Emit(Token(l.ch \o "=", l.ch \o readChar(l).ch), readChar(l))
           ELSE Emit(newToken(l.ch, l.ch), l)
      [] l.ch \in {";", "(", ")", ",", "+", "-", "/", "*", "<", ">", "{", "}",
                   "[", "]"} ->
           Emit(newToken(l.ch, l.ch), l)
      [] l.ch = NUL -> Emit(Token("EOF", ""), l)
      [] l.ch = "\"" ->
           Emit(Token("STRING", readString(l).literal), readString(l).l)
      [] isLetter(l.ch) ->
           [tok |-> Token(LookupIdent(readIdentifier(l).literal),
                          readIdentifier(l).literal),
            l |-> readIdentifier(l).l]
      [] isDigit(l.ch) ->
           [tok |-> Token("INT", readNumber(l).literal), l |-> readNumber(l).l]
      [] OTHER -> Emit(newToken("ILLEGAL", l.ch), l)

NextToken(l) == NextTokenAt(skipWhitespace(l))

(***************************************************************************)
(* The token sequences given to the parser: what the lexer makes of the    *)
(* source text written next to each.                                       *)
(***************************************************************************)
IdentTok(name) == Token("IDENT", name)
IntTok(literal) == Token("INT", literal)
StringTok(literal) == Token("STRING", literal)
Sym(s) == Token(s, s)
\* A keyword or an identifier.
Word(literal) == Token(LookupIdent(literal), literal)

\* a op1 b op2 c
ThreeOperands(op1, op2) == <<IdentTok("a"), Sym(op1), IdentTok("b"), Sym(op2), IdentTok("c")>>

OperatorInputs == { ThreeOperands(op1, op2) : op1, op2 \in Operators }

\* -a * b
NegATimesB == <<Sym("-"), IdentTok("a"), Sym("*"), IdentTok("b")>>
\* !-a
NotNegA == <<Sym("!"), Sym("-"), IdentTok("a")>>
\* -(5 + 5)
NegGroup == <<Sym("-"), Sym("("), IntTok("5"), Sym("+"), IntTok("5"), Sym(")")>>
\* (5 + 5) * 2
GroupTimes2 == <<Sym("("), IntTok("5"), Sym("+"), IntTok("5"), Sym(")"), Sym("*"), IntTok("2")>>
\* a + add(b * c) + d
CallAsOperand ==
    <<IdentTok("a"), Sym("+"), IdentTok("add"), Sym("("), IdentTok("b"), Sym("*"),
      IdentTok("c"), Sym(")"), Sym("+"), IdentTok("d")>>
\* -f(x)
NegCall == <<Sym("-"), IdentTok("f"), Sym("("), IdentTok("x"), Sym(")")>>

UnaryInputs == {NegATimesB, NotNegA, NegGroup, GroupTimes2, CallAsOperand, NegCall}

\* let = 5;
LetWithoutName == <<Word("let"), Sym("="), IntTok("5"), Sym(";")>>
\* let x 5;
LetWithoutAssign == <<Word("let"), IdentTok("x"), IntTok("5"), Sym(";")>>
\* let x = 5;
LetX == <<Word("let"), IdentTok("x"), Sym("="), IntTok("5"), Sym(";")>>
\* (1 + 2
GroupNotClosed == <<Sym("("), IntTok("1"), Sym("+"), IntTok("2")>>
\* if x { 1 }
IfWithoutParen == <<Word("if"), IdentTok("x"), Sym("{"), IntTok("1"), Sym("}")>>
\* if (true) { 1 } else { 2 }
IfElseInput ==
    <<Word("if"), Sym("("), Word("true"), Sym(")"), Sym("{"), IntTok("1"), Sym("}"), Word("else"),
      Sym("{"), IntTok("2"), Sym("}")>>
\* return 1;
ReturnOne == <<Word("return"), IntTok("1"), Sym(";")>>

PeekInputs ==
    {LetWithoutName, LetWithoutAssign, LetX, GroupNotClosed, IfWithoutParen,
     IfElseInput, ReturnOne}

\* a * b[2]
TimesIndex == <<IdentTok("a"), Sym("*"), IdentTok("b"), Sym("["), IntTok("2"), Sym("]")>>
\* a[1]
IndexA == <<IdentTok("a"), Sym("["), IntTok("1"), Sym("]")>>
\* add(a)[0]
IndexOfCall ==
    <<IdentTok("add"), Sym("("), IdentTok("a"), Sym(")"), Sym("["), IntTok("0"), Sym("]")>>
\* [1, 2]
ArrayOneTwo == <<Sym("["), IntTok("1"), Sym(","), IntTok("2"), Sym("]")>>

IndexInputs == {TimesIndex, IndexA, IndexOfCall, ArrayOneTwo}

\* fn(<parameters>) {}
FunctionWith(parameters) ==
    <<Word("fn"), Sym("(")>> \o parameters \o <<Sym(")"), Sym("{"), Sym("}")>>

ParameterInputs ==
    { FunctionWith(ps) :
        ps \in {<<>>, <<IdentTok("x")>>,
                <<IdentTok("x"), Sym(","), IdentTok("y"), Sym(","), IdentTok("z")>>,
                <<IntTok("1"), Sym(","), IntTok("2")>>, <<Word("true")>>,
                <<IdentTok("x"), Sym(","), IntTok("1")>>} }

\* An INT token alone, with and without the semicolon.
IntegerInputs ==
    { <<IntTok(lit)>> : lit \in DOMAIN Digits } \cup
    { <<IntTok(lit), Sym(";")>> : lit \in DOMAIN Digits }

\* "Hello" + " World"
HelloWorld == <<StringTok("Hello"), Sym("+"), StringTok(" World")>>
\* "hello world";
HelloString == <<StringTok("hello world"), Sym(";")>>

StringInputs == {HelloWorld, HelloString}

\* if (x) { 1
IfNotClosed ==
    <<Word("if"), Sym("("), IdentTok("x"), Sym(")"), Sym("{"), IntTok("1")>>
\* fn(x) { x
FunctionNotClosed ==
    <<Word("fn"), Sym("("), IdentTok("x"), Sym(")"), Sym("{"), IdentTok("x")>>
\* if (true) { 1 } else { 2
ElseNotClosed ==
    <<Word("if"), Sym("("), Word("true"), Sym(")"), Sym("{"), IntTok("1"),
      Sym("}"), Word("else"), Sym("{"), IntTok("2")>>
\* fn(x, y
ParametersNotClosed ==
    <<Word("fn"), Sym("("), IdentTok("x"), Sym(","), IdentTok("y")>>
\* add(1, 2
ArgumentsNotClosed ==
    <<IdentTok("add"), Sym("("), IntTok("1"), Sym(","), IntTok("2")>>
\* add(1,
ArgumentMissing == <<IdentTok("add"), Sym("("), IntTok("1"), Sym(",")>>
\* let = 5; let y = ( ; 7
TwoFailures ==
    LetWithoutName \o <<Word("let"), IdentTok("y"), Sym("="), Sym("("),
                        Sym(";"), IntTok("7")>>

\* Inputs that end inside a block, a parameter list or an argument list,
\* and one with two failing statements followed by a good one.
TruncatedInputs ==
    {IfNotClosed, FunctionNotClosed, ElseNotClosed, ParametersNotClosed,
     ArgumentsNotClosed, ArgumentMissing, TwoFailures}

Inputs ==
    OperatorInputs \cup UnaryInputs \cup PeekInputs \cup IndexInputs
    \cup ParameterInputs \cup IntegerInputs \cup StringInputs
    \cup TruncatedInputs

(***************************************************************************)
(* The state machine: a parsed program is handed to Eval together with a   *)
(* new root environment, and Eval returns a value or the host faults.      *)
(***************************************************************************)
\* The environment the caller of Eval made with NewEnvironment().
RootEnv == NewEnvironment([envs |-> <<>>]).env

InitMachine ==
    [val |-> nil, envs |-> NewEnvironment([envs |-> <<>>]).st.envs,
     nobj |-> FirstFreeId, depth |-> 0, fault |-> "", log |-> <<>>,
     calls |-> <<>>]

Init ==
    /\ lexer = NewLexer(<<>>)
    /\ tokens = <<>>
    /\ parser = New(<<>>)
    /\ errors = <<>>
    /\ peeks = <<>>
    /\ program \in Programs
    /\ envs = InitMachine.envs
    /\ result = nil
    /\ fault = ""
    /\ log = <<>>
    /\ calls = <<>>
    /\ pc = "parsed"

\* evaluated := Eval(program, env)
Evaluate ==
    /\ pc = "parsed"
    /\ errors = <<>>
    /\ LET r == Eval(program, RootEnv, InitMachine)
       IN /\ result' = r.val
          /\ envs' = r.envs
          /\ fault' = r.fault
          /\ log' = r.log
          /\ calls' = r.calls
          /\ pc' = IF r.fault # "" THEN "crashed" ELSE "returned"
    /\ UNCHANGED <<lexer, tokens, parser, errors, peeks, program>>

Next == Evaluate

Spec == Init /\ [][Next]_vars

(***************************************************************************)
(* The state machine from the token sequence on: the parser is built over  *)
(* the tokens, ParseProgram is run and, when it left no error, the program *)
(* is evaluated.                                                           *)
(***************************************************************************)
InitLexed ==
    /\ lexer = NewLexer(<<>>)
    /\ tokens \in Inputs
    /\ parser = New(<<>>)
    /\ errors = <<>>
    /\ peeks = <<>>
    /\ program = NoNode
    /\ envs = InitMachine.envs
    /\ result = nil
    /\ fault = ""
    /\ log = <<>>
    /\ calls = <<>>
    /\ pc = "lexed"

\* p := parser.New(l); program := p.ParseProgram()
Parse ==
    /\ pc = "lexed"
    /\ LET parsed == ParseProgram(New(tokens))
       IN /\ program' = Locate(parsed.node, <<>>)
          /\ parser' = parsed.ps
          /\ errors' = parsed.ps.errors
          /\ peeks' = parsed.ps.peeks
    /\ pc' = "parsed"
    /\ UNCHANGED <<lexer, tokens, envs, result, fault, log, calls>>

NextLexed == Parse \/ Evaluate

ParserSpec == InitLexed /\ [][NextLexed]_vars

(***************************************************************************)
(* The state machine of ParseProgram's loop: one step parses one statement *)
(* and advances, and ParseProgram returns when the current token is EOF.   *)
(***************************************************************************)
\* p := parser.New(l); program := &ast.Program{}
InitParser ==
    /\ lexer = NewLexer(<<>>)
    /\ tokens \in Inputs
    /\ parser = New(tokens)
    /\ errors = <<>>
    /\ peeks = <<>>
    /\ program = Program(<<>>)
    /\ envs = InitMachine.envs
    /\ result = nil
    /\ fault = ""
    /\ log = <<>>
    /\ calls = <<>>
    /\ pc = "parsing"

\* The passes through the loop that start from prog, each the pair of the
\* loop's state before the pass and ParseProgramStep of it.
RECURSIVE ParseProgramPasses(_)
ParseProgramPasses(prog) ==
    IF curToken(prog.ps).Type # "EOF"
    THEN LET after(next) == {<<prog, next>>} \cup ParseProgramPasses(next)
         IN after(ParseProgramStep(prog))
    ELSE {}

\* ParseProgramStep tabulated over the loop states the inputs lead to.
Passes ==
    UNION { ParseProgramPasses([list |-> <<>>, ps |-> New(toks)]) :
              toks \in Inputs }

\* One pass through the loop of ParseProgram.
ParseOneStatement ==
    /\ pc = "parsing"
    /\ curToken(parser).Type # "EOF"
    /\ \E pass \in Passes :
          /\ pass[1] = [list |-> program.Statements, ps |-> parser]
          /\ program' = Program(pass[2].list)
          /\ parser' = pass[2].ps
          /\ errors' = pass[2].ps.errors
          /\ peeks' = pass[2].ps.peeks
    /\ UNCHANGED <<lexer, tokens, envs, result, fault, log, calls, pc>>

\* The loop ends: return program
ReturnProgram ==
    /\ pc = "parsing"
    /\ curToken(parser).Type = "EOF"
    /\ program' = Locate(program, <<>>)
    /\ pc' = "parsed"
    /\ UNCHANGED <<lexer, tokens, parser, errors, peeks, envs, result, fault, log, calls>>

NextParser == ParseOneStatement \/ ReturnProgram

\* ParseProgram runs on one goroutine and nothing suspends it.
ParseLoopSpec ==
    InitParser /\ [][NextParser]_vars
    /\ WF_vars(ParseOneStatement) /\ WF_vars(ReturnProgram)

(***************************************************************************)
(* The state machine of the lexer alone: NextToken is called on a lexer    *)
(* over the input again and again, as the parser does, and the tokens it   *)
(* returns are kept in order.                                              *)
(***************************************************************************)
\* Longest input, in characters.
MaxInput == 3
\* Calls of NextToken made beyond one per character of the input.
ExtraCalls == 2

LexAlphabet == {"a", "1", " ", "\"", "=", NUL}

RECURSIVE Strings(_)
Strings(n) ==
    IF n = 0 THEN {<<>>}
    ELSE Strings(n - 1) \cup
         { Append(w, c) : w \in { v \in Strings(n - 1) : Len(v) = n - 1 },
                          c \in LexAlphabet }

InitLexer ==
    /\ lexer \in { NewLexer(input) : input \in Strings(MaxInput) }
    /\ tokens = <<>>
    /\ parser = New(<<>>)
    /\ errors = <<>>
    /\ peeks = <<>>
    /\ program = NoNode
    /\ envs = InitMachine.envs
    /\ result = nil
    /\ fault = ""
    /\ log = <<>>
    /\ calls = <<>>
    /\ pc = "lexing"

\* tok := l.NextToken()
CallNextToken ==
    /\ pc = "lexing"
    /\ Len(tokens) < Len(lexer.input) + ExtraCalls
    /\ lexer' = NextToken(lexer).l
    /\ tokens' = Append(tokens, NextToken(lexer).tok)
    /\ UNCHANGED <<parser, errors, peeks, program, envs, result, fault, log, calls, pc>>

NextLexer == CallNextToken

\* Nothing keeps the caller from calling NextToken again.
LexerSpec == InitLexer /\ [][NextLexer]_vars /\ WF_vars(CallNextToken)

(***************************************************************************)
(* The state machine of the Integer operators at the width of int64: an    *)
(* expression over two Integer literals, or the negation of one, is given  *)
(* its value.                                                              *)
(***************************************************************************)
\* The integers that are written both ways.
Small == -3..3

WideOperands ==
    { Int64(n) : n \in Small } \cup
    { MaxInt64, MinInt64, Sub64(MaxInt64, Int64(1)), Add64(MinInt64, Int64(1)),
      \* 1<<32, 1<<31 and 1<<62
      Bytes(0, 4) \o Bytes(1, Limbs - 4),
      Bytes(0, 3) \o Bytes(Base \div 2, Limbs - 3),
      Bytes(0, Limbs - 1) \o <<Base \div 4>> }

\* a + b, a - b, a * b and -a
WideExpressions ==
    { InfixExpression(IntegerLiteral(a), op, IntegerLiteral(b)) :
          a \in WideOperands, op \in {"+", "-", "*"}, b \in WideOperands }
    \cup { PrefixExpression("-", IntegerLiteral(a)) : a \in WideOperands }

InitWide ==
    /\ lexer = NewLexer(<<>>)
    /\ tokens = <<>>
    /\ parser = New(<<>>)
    /\ errors = <<>>
    /\ peeks = <<>>
    /\ program \in WideExpressions
    /\ envs = InitMachine.envs
    /\ result = nil
    /\ fault = ""
    /\ log = <<>>
    /\ calls = <<>>
    /\ pc = "parsed"

\* The Integer operators of evalIntegerInfixExpression on int64 values.
Int64Infix(operator, leftVal, rightVal) ==
    CASE operator = "+" -> Add64(leftVal, rightVal)
      [] operator = "-" -> Sub64(leftVal, rightVal)
      [] operator = "*" -> Mul64(leftVal, rightVal)

\* return &object.Integer{Value: leftVal + rightVal}, ... and
\* return &object.Integer{Value: -value}
ApplyOperator ==
    /\ pc = "parsed"
    /\ result' = Integer(FirstFreeId,
                     IF program.node = "PrefixExpression"
                     THEN Neg64(program.Right.IntValue)
                     ELSE Int64Infix(program.Operator, program.Left.IntValue,
                                     program.Right.IntValue))
    /\ pc' = "returned"
    /\ UNCHANGED <<lexer, tokens, parser, errors, peeks, program, envs, fault,
                   log, calls>>

NextWide == ApplyOperator

ArithmeticSpec == InitWide /\ [][NextWide]_vars

(***************************************************************************)
(* Reading the record of returned Eval calls.                              *)
(***************************************************************************)
Child(n, c) ==
    CASE n.node \in {"Program", "BlockStatement"} -> n.Statements[c]
      [] n.node = "ExpressionStatement" -> n.Expression
      [] n.node = "LetStatement" -> IF c = 1 THEN n.Name ELSE n.LetValue
      [] n.node = "ReturnStatement" -> n.ReturnValue
      [] n.node = "PrefixExpression" -> n.Right
      [] n.node = "InfixExpression" -> IF c = 1 THEN n.Left ELSE n.Right
      [] n.node = "IfExpression" ->
           CASE c = 1 -> n.Condition [] c = 2 -> n.Consequence [] OTHER -> n.Alternative
      [] n.node = "FunctionLiteral" -> IF c = 0 THEN n.Body ELSE n.Parameters[c]
      [] n.node = "CallExpression" -> IF c = 0 THEN n.Function ELSE n.Arguments[c]

\* The node of the tree with identity p.
RECURSIVE NodeAt(_, _)
NodeAt(n, p) == IF p = <<>> THEN n ELSE NodeAt(Child(n, Head(p)), Tail(p))

Entries == 1..Len(log)

\* p is a proper or improper prefix of q: the node at p encloses the node at q.
Encloses(p, q) == Len(p) <= Len(q) /\ SubSeq(q, 1, Len(p)) = p

\* Entry j records the evaluation of the c-th child of the node of entry k,
\* made by that call of Eval (a node is evaluated in one environment once).
IsChild(j, k, c) ==
    /\ log[j].at = Append(log[k].at, c)
    /\ log[j].env = log[k].env

\* The calls of Eval on the program's own statements, in the order they returned.
TopLevel == SelectSeq(log, LAMBDA e : Len(e.at) = 1)

Stops(v) == v.type \in {"RETURN_VALUE", "ERROR"}

\* C1: Eval of a Program evaluates its statements in source order and returns
\* the unwrapped inner value of the first statement result that is a
\* ReturnValue, else the first Error result unchanged, in both cases with no
\* later statement evaluated; else the value of the last statement, which is
\* absent when the last statement is a let or the program is empty.
ProgramResult ==
    pc = "returned" =>
        LET n == Len(program.Statements)
            k == Len(TopLevel)
        IN /\ k <= n
           /\ \A i \in 1..k : TopLevel[i].at = <<i>>
           /\ \A i \in 1..(k - 1) : ~Stops(TopLevel[i].val)
           /\ CASE k > 0 /\ TopLevel[k].val.type = "RETURN_VALUE" ->
                     result = TopLevel[k].val.Wrapped
                [] k > 0 /\ TopLevel[k].val.type = "ERROR" ->
                     result = TopLevel[k].val
                [] OTHER ->
                     /\ k = n
                     /\ result = IF n = 0 THEN nil ELSE TopLevel[n].val
                     /\ (n = 0 \/ program.Statements[n].node = "LetStatement")
                            => result = nil

\* A program whose first statement returned a ReturnValue before its last
\* statement: the program yields the inner value and the rest is not evaluated.
ProgramReturnsEarly ==
    /\ pc = "returned"
    /\ Len(TopLevel) = 1
    /\ Len(program.Statements) = 2
    /\ TopLevel[1].val.type = "RETURN_VALUE"
    /\ result = TopLevel[1].val.Wrapped
    /\ result.type = "INTEGER"

\* A return statement that executed inside an if-block of the program itself
\* (function bodies are evaluated in environments of their own).
ReturnedInIfBlock(k) ==
    /\ log[k].kind = "ReturnStatement"
    /\ log[k].val.type = "RETURN_VALUE"
    /\ log[k].env = RootEnv
    /\ Len(log[k].at) > 1

\* C2: a return statement executed inside if-blocks nested to any depth
\* terminates the whole program: every enclosing block hands the ReturnValue
\* upward still wrapped, nothing but the enclosing forms returns after it,
\* and the Program yields the returned value.
ReturnInIfBlocksEndsProgram ==
    pc = "returned" =>
        \A k \in Entries :
            ReturnedInIfBlock(k) =>
                /\ \A j \in (k + 1)..Len(log) :
                       /\ Encloses(log[j].at, log[k].at)
                       /\ log[j].kind = "BlockStatement" => log[j].val = log[k].val
                /\ result = log[k].val.Wrapped

\* The program went on after a return executed inside one of its if-blocks.
ReturnInIfBlockIgnored ==
    /\ pc = "returned"
    /\ \E k \in Entries :
           /\ ReturnedInIfBlock(k)
           /\ result # log[k].val.Wrapped
           /\ \E j \in (k + 1)..Len(log) : ~Encloses(log[j].at, log[k].at)

\* C3: the value returned by Eval(Program, env) is never a ReturnValue.
ProgramNeverYieldsReturnValue ==
    pc = "returned" => result.type # "RETURN_VALUE"

\* Eval of a program returned a ReturnValue to its caller.
ProgramYieldsReturnValue ==
    /\ pc = "returned"
    /\ result.type = "RETURN_VALUE"
    /\ result.Wrapped.type = "INTEGER"

\* C4: a return executed inside a function body ends only that call: the
\* value of a call expression is never a ReturnValue, and after a call that
\* is a statement of the program has returned a value that is not an Error
\* the program's next statement is evaluated.
ReturnEndsOnlyTheCall ==
    /\ \A k \in Entries :
           log[k].kind = "CallExpression" => log[k].val.type # "RETURN_VALUE"
    /\ pc = "returned" =>
           \A i \in 1..Len(TopLevel) :
               (/\ TopLevel[i].kind = "ExpressionStatement"
                /\ program.Statements[i].Expression.node = "CallExpression"
                /\ TopLevel[i].val.type # "ERROR"
                /\ i < Len(program.Statements))
                   => Len(TopLevel) > i

\* A call expression whose value is a ReturnValue.
CallYieldsReturnValue ==
    \E k \in Entries :
        /\ log[k].kind = "CallExpression"
        /\ log[k].val.type = "RETURN_VALUE"

Forms ==
    {"PrefixExpression", "InfixExpression", "ReturnStatement", "LetStatement",
     "CallExpression"}

\* Entry j records the evaluation of a sub-expression of the node of entry k.
IsOperand(j, k) ==
    /\ log[j].env = log[k].env
    /\ Len(log[j].at) = Len(log[k].at) + 1
    /\ Encloses(log[k].at, log[j].at)

\* C5: in a PrefixExpression, InfixExpression, ReturnStatement, LetStatement
\* and CallExpression (callee and each argument), when evaluating a
\* sub-expression yields an Error the whole form yields that same Error.
ErrorShortCircuits ==
    \A k \in Entries :
        log[k].kind \in Forms =>
            \A j \in 1..(k - 1) :
                (IsOperand(j, k) /\ log[j].val.type = "ERROR")
                    => log[k].val = log[j].val

\* A call of a function value whose argument evaluated to an Error yields it.
CallYieldsArgumentError ==
    \E k \in Entries : \E c, j \in 1..(k - 1) :
        /\ log[k].kind = "CallExpression"
        /\ IsChild(c, k, 0)
        /\ log[c].val.type = "FUNCTION"
        /\ IsChild(j, k, 1)
        /\ log[j].val.type = "ERROR"
        /\ log[k].val = log[j].val

\* C6: when the condition of an IfExpression evaluates to an Error, the
\* if-expression yields that same Error and neither the consequence nor the
\* alternative is evaluated.
IfConditionErrorPropagates ==
    \A k \in Entries :
        log[k].kind = "IfExpression" =>
            \A c \in 1..(k - 1) :
                (IsChild(c, k, 1) /\ log[c].val.type = "ERROR") =>
                    /\ log[k].val = log[c].val
                    /\ \A j \in 1..(k - 1) : ~IsChild(j, k, 2) /\ ~IsChild(j, k, 3)

\* An if-expression whose condition was an Error evaluated its consequence
\* and yielded the consequence's value.
IfConditionErrorTakesConsequence ==
    \E k \in Entries : \E c, j \in 1..(k - 1) :
        /\ log[k].kind = "IfExpression"
        /\ IsChild(c, k, 1)
        /\ log[c].val.type = "ERROR"
        /\ IsChild(j, k, 2)
        /\ log[k].val = log[j].val
        /\ log[k].val # log[c].val

\* The evaluation of a function literal's body.
IsBody(e) ==
    /\ e.kind = "BlockStatement"
    /\ e.at # <<>>
    /\ e.at[Len(e.at)] = 0

\* C7: a function value captures the environment its literal was evaluated
\* in, and every call evaluates the body in a fresh environment whose outer
\* is that captured environment; the newAdder program yields Integer 5
\* whatever x is bound to where addTwo is called.
LexicalClosures ==
    /\ \A k \in Entries :
           log[k].kind = "FunctionLiteral" =>
               /\ log[k].val.type = "FUNCTION"
               /\ log[k].val.Env = log[k].env
    /\ \A k \in Entries \ {1} :
           (log[k].kind = "CallExpression" /\ IsBody(log[k - 1])) =>
               \E c \in 1..(k - 1) :
                   /\ IsChild(c, k, 0)
                   /\ log[c].val.type = "FUNCTION"
                   /\ log[c].val.Body.at = log[k - 1].at
                   /\ envs[log[k - 1].env].outer = log[c].val.Env
                   /\ \A j \in 1..c : log[j].env # log[k - 1].env
    /\ (pc # "parsed" /\ program \in { Locate(p, <<>>) : p \in NewAdderPrograms }) =>
           /\ pc = "returned"
           /\ result.type = "INTEGER"
           /\ result.IntValue = 5

\* addTwo was called where x is bound, its body ran in an environment
\* enclosing another one, and the program yielded 5.
ClosureIgnoresCallSite ==
    /\ pc = "returned"
    /\ result.type = "INTEGER"
    /\ result.IntValue = 5
    /\ \E k \in Entries \ {1} :
           /\ log[k].kind = "CallExpression"
           /\ IsBody(log[k - 1])
           /\ "x" \in DOMAIN envs[log[k].env].store
           /\ "y" \in DOMAIN envs[log[k - 1].env].store
           /\ envs[log[k - 1].env].outer # log[k].env

\* Entry l records a let that bound name in environment d.
BoundBy(l, d, name) ==
    /\ log[l].kind = "LetStatement"
    /\ log[l].env = d
    /\ log[l].val.type = "nil"
    /\ NodeAt(program, log[l].at).Name.Value = name

\* C8: the captured environment is shared by reference: an identifier that a
\* call's environment does not bind itself resolves to what the latest let
\* bound in the enclosing (captured) environment, even when that let came
\* after the function literal was evaluated; so a function bound by let calls
\* itself by name and the counter program yields TRUE.
LateBindingVisible ==
    /\ \A i \in Entries :
           log[i].kind = "Identifier" =>
               LET b == log[i].env
                   d == envs[b].outer
                   name == NodeAt(program, log[i].at).Value
               IN (d # NoEnv /\ name \notin DOMAIN envs[b].store) =>
                      \A l \in 1..(i - 1) :
                          (/\ BoundBy(l, d, name)
                           /\ \A m \in (l + 1)..(i - 1) : ~BoundBy(m, d, name))
                              => \E j \in 1..(l - 1) :
                                     /\ IsChild(j, l, 2)
                                     /\ log[i].val = log[j].val
    /\ (pc # "parsed" /\ program = Locate(Counter, <<>>)) =>
           /\ pc = "returned"
           /\ result = TRUE_

\* The counter program returned TRUE after its body had resolved its own name
\* to the function bound in the root environment.
CounterCallsItself ==
    /\ pc = "returned"
    /\ program = Locate(Counter, <<>>)
    /\ result = TRUE_
    /\ \E i, l \in Entries :
           /\ l < i
           /\ BoundBy(l, RootEnv, "counter")
           /\ log[i].kind = "Identifier"
           /\ log[i].env # RootEnv
           /\ log[i].val.type = "FUNCTION"
           /\ log[i].val.Env = RootEnv

\* The scopes from e outward.
RECURSIVE Chain(_, _)
Chain(heap, e) ==
    IF e = NoEnv THEN <<>> ELSE <<e>> \o Chain(heap, heap[e].outer)

\* Every name some scope binds, and one that none does.
Names == UNION { DOMAIN envs[e].store : e \in DOMAIN envs } \cup {"unbound"}

\* C9: Get(name) returns the binding of the innermost scope of the outer
\* chain that defines name and reports absent only when no scope of the
\* chain defines it; Set(name, v) adds or overwrites the binding in the
\* receiver's own store and leaves every other scope unchanged.
ScopeChain ==
    \A e \in DOMAIN envs : \A name \in Names :
        /\ LET c == Chain(envs, e)
               defs == { i \in 1..Len(c) : name \in DOMAIN envs[c[i]].store }
               got == Get(envs, e, name)
           IN IF defs = {} THEN ~got.ok /\ got.obj = nil
              ELSE /\ got.ok
                   /\ \E i \in defs :
                          /\ \A i2 \in defs : i <= i2
                          /\ got.obj = envs[c[i]].store[name]
        /\ \A v \in {NULL, Integer(0, 7)} :
               LET h == Set(envs, e, name, v)
               IN /\ DOMAIN h = DOMAIN envs
                  /\ \A e2 \in DOMAIN envs \ {e} : h[e2] = envs[e2]
                  /\ h[e].outer = envs[e].outer
                  /\ DOMAIN h[e].store = DOMAIN envs[e].store \cup {name}
                  /\ h[e].store[name] = v
                  /\ \A n2 \in DOMAIN envs[e].store \ {name} :
                         h[e].store[n2] = envs[e].store[n2]

\* A let inside a function body bound a name its enclosing scope binds too:
\* the inner scope sees its own binding and the outer scope kept its own.
InnerBindingShadows ==
    \E e \in DOMAIN envs : \E name \in DOMAIN envs[e].store :
        /\ envs[e].outer # NoEnv
        /\ name \in DOMAIN envs[envs[e].outer].store
        /\ envs[envs[e].outer].store[name] # envs[e].store[name]
        /\ Get(envs, e, name).obj = envs[e].store[name]
        /\ \E l \in Entries : BoundBy(l, e, name)

Falsy(v) == v = FALSE_ \/ v = NULL

\* C10: a value is falsy exactly when it is FALSE or NULL: an if-expression
\* evaluates its consequence for every other condition value, the
\* alternative when the condition is falsy and there is one, and yields NULL
\* when the condition is falsy and there is none; !v is FALSE exactly when v
\* is truthy and TRUE otherwise, so !!v is TRUE iff if (v) takes the
\* consequence.
Truthiness ==
    /\ \A k \in Entries :
           log[k].kind = "IfExpression" =>
               \A c \in 1..(k - 1) :
                   IsChild(c, k, 1) =>
                       LET ie == NodeAt(program, log[k].at)
                           cons == { j \in 1..(k - 1) : IsChild(j, k, 2) }
                           alt == { j \in 1..(k - 1) : IsChild(j, k, 3) }
                       IN CASE ~Falsy(log[c].val) ->
                                 /\ alt = {}
                                 /\ \E j \in cons : log[k].val = log[j].val
                            [] Falsy(log[c].val) /\ ie.Alternative.node # "nil" ->
                                 /\ cons = {}
                                 /\ \E j \in alt : log[k].val = log[j].val
                            [] OTHER ->
                                 /\ cons = {}
                                 /\ alt = {}
                                 /\ log[k].val = NULL
    /\ \A k \in Entries :
           (/\ log[k].kind = "PrefixExpression"
            /\ NodeAt(program, log[k].at).Operator = "!") =>
               \A c \in 1..(k - 1) :
                   (IsChild(c, k, 1) /\ log[c].val.type # "ERROR") =>
                       log[k].val = IF Falsy(log[c].val) THEN TRUE_ ELSE FALSE_
    /\ \A k \in Entries :
           LET v == log[k].val
           IN /\ isTruthy(v) = ~Falsy(v)
              /\ (evalBangOperatorExpression(v) = FALSE_) = isTruthy(v)
              /\ (evalBangOperatorExpression(v) = TRUE_) = ~isTruthy(v)
              /\ (evalBangOperatorExpression(evalBangOperatorExpression(v)) = TRUE_)
                     = isTruthy(v)

\* if (a) { !!a } else { !!a } with a bound to the integer 0 took the
\* consequence, where !!a was TRUE.
ZeroIsTruthy ==
    \E k \in Entries : \E c, j \in 1..(k - 1) :
        /\ log[k].kind = "IfExpression"
        /\ IsChild(c, k, 1)
        /\ log[c].val.type = "INTEGER"
        /\ log[c].val.IntValue = 0
        /\ IsChild(j, k, 2)
        /\ log[k].val = TRUE_
        /\ NodeAt(program, log[k].at).Alternative.node # "nil"

\* Entries l and r record the operands of the infix expression of entry k,
\* both values with a type tag and neither an Error.
InfixOperands(k, l, r) ==
    /\ log[k].kind = "InfixExpression"
    /\ IsChild(l, k, 1)
    /\ IsChild(r, k, 2)
    /\ log[l].val.type \notin {"nil", "ERROR"}
    /\ log[r].val.type \notin {"nil", "ERROR"}

BothInteger(l, r) == log[l].val.type = "INTEGER" /\ log[r].val.type = "INTEGER"

\* C11: for an infix expression whose operands are not both Integer, == and
\* != yield the Boolean of the identity comparison whatever the operand types
\* and never an error; every other operator yields Error "type mismatch: T1
\* OP T2" when the type tags differ and "unknown operator: T1 OP T2" when
\* they are equal.  So an infix expression of two literals always returns,
\* unless it divides by zero.
MixedOperands ==
    /\ \A k \in Entries : \A l, r \in 1..(k - 1) :
           (InfixOperands(k, l, r) /\ ~BothInteger(l, r)) =>
               LET op == NodeAt(program, log[k].at).Operator
                   T1 == log[l].val.type
                   T2 == log[r].val.type
                   same == log[l].val.id = log[r].val.id
               IN CASE op = "==" -> log[k].val = IF same THEN TRUE_ ELSE FALSE_
                    [] op = "!=" -> log[k].val = IF same THEN FALSE_ ELSE TRUE_
                    [] OTHER ->
                         /\ log[k].val.type = "ERROR"
                         /\ log[k].val.Message =
                                (IF T1 # T2 THEN "type mismatch: "
                                 ELSE "unknown operator: ")
                                \o T1 \o " " \o op \o " " \o T2
    /\ (pc # "parsed" /\ program \in { Locate(p, <<>>) : p \in InfixPrograms }) =>
           \/ fault = "integer divide by zero"
           \/ /\ pc = "returned"
              /\ program.Statements[1].Expression.Operator \in {"==", "!="}
                     => result \in {TRUE_, FALSE_}

\* "Hello" == 7 stopped the host with a nil dereference.
StringOperandFaults ==
    /\ pc = "crashed"
    /\ fault = "nil pointer dereference"
    /\ program \in { Locate(p, <<>>) : p \in InfixPrograms }
    /\ program.Statements[1].Expression.Operator = "=="
    /\ program.Statements[1].Expression.Left.node = "StringLiteral"
    /\ program.Statements[1].Expression.Right.node = "IntegerLiteral"

\* q is a / b truncated toward zero.
IsTruncatedQuotient(q, a, b) ==
    LET rem == a - q * b
        abs(x) == IF x < 0 THEN 0 - x ELSE x
    IN /\ abs(rem) < abs(b)
       /\ rem = 0 \/ (rem < 0) = (a < 0)

\* C12: for Integer operands a and b (b non-zero for /), + - * / yield the
\* Integer sum, difference, product and quotient truncated toward zero, and
\* < > == != yield the Boolean that compares a and b by value, so two
\* distinct Integer objects with the same value are ==.
IntegerOperators ==
    /\ \A k \in Entries : \A l, r \in 1..(k - 1) :
           (InfixOperands(k, l, r) /\ BothInteger(l, r)) =>
               LET op == NodeAt(program, log[k].at).Operator
                   a == log[l].val.IntValue
                   b == log[r].val.IntValue
                   v == log[k].val
                   Bool(t) == IF t THEN TRUE_ ELSE FALSE_
               IN CASE op = "+" -> v.type = "INTEGER" /\ v.IntValue = a + b
                    [] op = "-" -> v.type = "INTEGER" /\ v.IntValue = a - b
                    [] op = "*" -> v.type = "INTEGER" /\ v.IntValue = a * b
                    [] op = "/" ->
                         /\ b # 0
                         /\ v.type = "INTEGER"
                         /\ IsTruncatedQuotient(v.IntValue, a, b)
                    [] op = "<" -> v = Bool(a < b)
                    [] op = ">" -> v = Bool(a > b)
                    [] op = "==" -> v = Bool(a = b)
                    [] op = "!=" -> v = Bool(a # b)
    /\ (pc = "crashed" /\ program \in { Locate(p, <<>>) : p \in InfixPrograms }
            /\ fault = "integer divide by zero") =>
           \E r \in Entries :
               /\ log[r].at = <<1, 1, 2>>
               /\ log[r].val.type = "INTEGER"
               /\ log[r].val.IntValue = 0

\* -7 / 2 yielded -3.
NegativeQuotientTruncated ==
    \E k \in Entries : \E l, r \in 1..(k - 1) :
        /\ InfixOperands(k, l, r)
        /\ NodeAt(program, log[k].at).Operator = "/"
        /\ log[l].val.type = "INTEGER"
        /\ log[l].val.IntValue = 0 - 7
        /\ log[r].val.type = "INTEGER"
        /\ log[r].val.IntValue = 2
        /\ log[k].val.type = "INTEGER"
        /\ log[k].val.IntValue = 0 - 3

(***************************************************************************)
(* The parser's claims.                                                    *)
(***************************************************************************)
\* The program of one expression statement.
OneExpression(e) == Locate(Program(<<ExpressionStatement(e)>>), <<>>)

Infix(l, op, r) == InfixExpression(l, op, r)

\* The precedence the claim gives a binary operator:
\* EQUALS < LESSGREATER < SUM < PRODUCT.
ClaimedLevel(op) ==
    CASE op \in {"==", "!="} -> 1
      [] op \in {"<", ">"} -> 2
      [] op \in {"+", "-"} -> 3
      [] op \in {"*", "/"} -> 4

\* C13: for binary operators op1 and op2, "a op1 b op2 c" parses without
\* error as ((a op1 b) op2 c) when the precedence of op1 is at least that of
\* op2 and as (a op1 (b op2 c)) otherwise.
PrecedenceGrouping ==
    \A op1, op2 \in Operators :
        (pc # "lexed" /\ tokens = ThreeOperands(op1, op2)) =>
            /\ errors = <<>>
            /\ program = OneExpression(
                   IF ClaimedLevel(op1) >= ClaimedLevel(op2)
                   THEN Infix(Infix(Id("a"), op1, Id("b")), op2, Id("c"))
                   ELSE Infix(Id("a"), op1, Infix(Id("b"), op2, Id("c"))))

\* a - b - c was parsed as ((a - b) - c) and a + b * c as (a + (b * c)).
GroupedBothWays ==
    /\ pc = "parsed"
    /\ \/ /\ tokens = ThreeOperands("-", "-")
          /\ program.Statements[1].Expression.Left.node = "InfixExpression"
       \/ /\ tokens = ThreeOperands("+", "*")
          /\ program.Statements[1].Expression.Right.node = "InfixExpression"

\* C14: the unary operators - and ! bind tighter than every binary
\* operator, a call binds tighter than a unary operator, and a parenthesised
\* group is one operand: -a * b is ((-a) * b), !-a is (!(-a)), -(5 + 5) is
\* (-(5 + 5)), (5 + 5) * 2 is ((5 + 5) * 2), a + add(b * c) + d is
\* ((a + add((b * c))) + d) and -f(x) is (-f(x)).
UnaryAndCallBinding ==
    pc # "lexed" =>
        /\ tokens \in UnaryInputs => errors = <<>>
        /\ tokens = NegATimesB =>
               program = OneExpression(Infix(Neg(Id("a")), "*", Id("b")))
        /\ tokens = NotNegA => program = OneExpression(Not(Neg(Id("a"))))
        /\ tokens = NegGroup =>
               program = OneExpression(Neg(Infix(Lit(5), "+", Lit(5))))
        /\ tokens = GroupTimes2 =>
               program = OneExpression(Infix(Infix(Lit(5), "+", Lit(5)), "*", Lit(2)))
        /\ tokens = CallAsOperand =>
               program = OneExpression(
                   Infix(Infix(Id("a"), "+",
                               Call1(Id("add"), Infix(Id("b"), "*", Id("c")))),
                         "+", Id("d")))
        /\ tokens = NegCall =>
               program = OneExpression(Neg(Call1(Id("f"), Id("x"))))

\* -f(x) was parsed: the operand of - is the call.
NegatedCallParsed ==
    /\ pc = "parsed"
    /\ tokens = NegCall
    /\ program.Statements[1].Expression.node = "PrefixExpression"
    /\ program.Statements[1].Expression.Right.node = "CallExpression"

(***************************************************************************)
(* Function application and string literals.                               *)
(***************************************************************************)
\* C15: calling a function of N parameters with M arguments, M different
\* from N, yields Error "wrong number of arguments: want=N, got=M" and the
\* body is not evaluated.
ArityChecked ==
    (pc # "parsed" /\ program \in { Locate(p, <<>>) : p \in ArityPrograms }) =>
        LET call == program.Statements[1].Expression
            N == Len(call.Function.Parameters)
            M == Len(call.Arguments)
        IN N # M =>
               /\ pc = "returned"
               /\ result.type = "ERROR"
               /\ result.Message = "wrong number of arguments: want="
                                   \o ToString(N) \o ", got=" \o ToString(M)
               /\ \A k \in Entries : log[k].kind # "BlockStatement"

\* fn(x) { 1 }() stopped the host: there is no args[0] to bind x to.
MissingArgumentFaults ==
    /\ pc = "crashed"
    /\ fault = "index out of range"
    /\ program \in { Locate(p, <<>>) : p \in ArityPrograms }
    /\ Len(program.Statements[1].Expression.Function.Parameters) = 1
    /\ program.Statements[1].Expression.Arguments = <<>>

\* C16: evaluating a string literal yields a String value (type tag
\* STRING), and "Hello" + " World" evaluates to
\* Error "unknown operator: STRING + STRING".
StringLiteralValue ==
    /\ \A k \in Entries :
           log[k].kind = "StringLiteral" => log[k].val.type = "STRING"
    /\ (pc # "parsed" /\ program \in { Locate(p, <<>>) : p \in StringPrograms }) =>
           /\ pc = "returned"
           /\ program.Statements[1].Expression.node = "StringLiteral"
                  => result.type = "STRING"
           /\ program.Statements[1].Expression.node = "InfixExpression"
                  => /\ result.type = "ERROR"
                     /\ result.Message = "unknown operator: STRING + STRING"

\* "Hello" was evaluated and the program's value is the nil interface.
StringLiteralYieldsNil ==
    /\ pc = "returned"
    /\ program \in { Locate(p, <<>>) : p \in StringPrograms }
    /\ program.Statements[1].Expression.node = "StringLiteral"
    /\ result = nil

(***************************************************************************)
(* The parser's errors.                                                    *)
(***************************************************************************)
\* C17: when the token after the current one is not of the expected type T,
\* expectPeek leaves the token window where it is, returns false and appends
\* exactly "expected next token to be T, got X instead" (X the type of the
\* next token) to the error list; parsing "let = 5;" leaves
\* "expected next token to be IDENT, got = instead" in the list.
ExpectPeekMismatch ==
    /\ \A i \in DOMAIN peeks :
           peeks[i].got # peeks[i].want =>
               /\ peeks[i].posAfter = peeks[i].pos
               /\ ~peeks[i].ok
               /\ peeks[i].errorsAfter =
                      Append(peeks[i].errors,
                             "expected next token to be " \o peeks[i].want
                             \o ", got " \o peeks[i].got \o " instead")
    /\ (pc # "lexed" /\ tokens = LetWithoutName) =>
           \E i \in DOMAIN errors :
               errors[i] = "expected next token to be IDENT, got = instead"

\* "let = 5;" was parsed: expectPeek(IDENT) met = and recorded a message.
LetWithoutNameRejected ==
    /\ pc = "parsed"
    /\ tokens = LetWithoutName
    /\ \E i \in DOMAIN peeks :
           /\ peeks[i].want = "IDENT"
           /\ peeks[i].got = "="
           /\ ~peeks[i].ok
           /\ peeks[i].posAfter = peeks[i].pos
           /\ Len(peeks[i].errorsAfter) = Len(peeks[i].errors) + 1

(***************************************************************************)
(* Index expressions, function parameters and integer literals.            *)
(***************************************************************************)
\* C18: left[index] parses with no error as one IndexExpression that binds
\* tighter than a call and than every unary and binary operator: [ has an
\* infix parse function and a precedence above CALL, so a * b[2] is the one
\* statement (a * (b[2])), a[1] is (a[1]) and add(a)[0] is (add(a)[0]).
IndexBindsTightest ==
    pc # "lexed" =>
        /\ tokens \in {TimesIndex, IndexA, IndexOfCall} =>
               /\ errors = <<>>
               /\ Len(program.Statements) = 1
        /\ tokens = TimesIndex =>
               program = OneExpression(
                   Infix(Id("a"), "*", IndexExpression(Id("b"), Lit(2))))
        /\ tokens = IndexA =>
               program = OneExpression(IndexExpression(Id("a"), Lit(1)))
        /\ tokens = IndexOfCall =>
               program = OneExpression(
                   IndexExpression(Call1(Id("add"), Id("a")), Lit(0)))

\* a * b[2] was parsed without error as two statements: (a * b) and [2].
IndexSplitsStatement ==
    /\ pc = "parsed"
    /\ tokens = TimesIndex
    /\ errors = <<>>
    /\ Len(program.Statements) = 2
    /\ program.Statements[1].Expression.node = "InfixExpression"
    /\ program.Statements[2].Expression.node = "ArrayLiteral"

\* The parameter lists of IDENT tokens among the inputs, and the others.
IdentLists ==
    {<<>>, <<IdentTok("x")>>,
     <<IdentTok("x"), Sym(","), IdentTok("y"), Sym(","), IdentTok("z")>>}

OtherLists ==
    {<<IntTok("1"), Sym(","), IntTok("2")>>, <<Word("true")>>,
     <<IdentTok("x"), Sym(","), IntTok("1")>>}

\* The names of a parameter list of IDENT tokens, in order.
NamesOf(list) ==
    [i \in 1..((Len(list) + 1) \div 2) |-> Identifier(list[2 * i - 1].Literal)]

\* C19: the parser accepts only IDENT tokens as function parameters: a
\* parameter list that is empty or a comma-separated list of IDENTs closed
\* by ) yields exactly those identifiers in order, and a list containing any
\* other token, as in fn(1, 2) {} or fn(true) {}, records a parser error.
OnlyIdentParameters ==
    pc # "lexed" =>
        /\ \A list \in IdentLists :
               tokens = FunctionWith(list) =>
                   /\ errors = <<>>
                   /\ program = OneExpression(
                          FunctionLiteral(NamesOf(list), Block(<<>>)))
        /\ \A list \in OtherLists :
               tokens = FunctionWith(list) => errors # <<>>

\* fn(1, 2) {} was parsed without error into a function whose parameters
\* are named 1 and 2.
IntegerParametersAccepted ==
    /\ pc = "parsed"
    /\ tokens = FunctionWith(<<IntTok("1"), Sym(","), IntTok("2")>>)
    /\ errors = <<>>
    /\ program = OneExpression(
           FunctionLiteral(<<Identifier("1"), Identifier("2")>>, Block(<<>>)))

\* C20: an INT token whose literal is the digit string d parses to an
\* IntegerLiteral whose value is the base-10 value of d, leading zeros
\* included (010 is 10 and 08 is 8); a digit string outside the 64-bit
\* signed range records "could not parse "d" as integer" and yields no
\* expression.
DecimalIntegerLiterals ==
    \A d \in DOMAIN Digits :
        (pc # "lexed" /\ tokens \in {<<IntTok(d)>>, <<IntTok(d), Sym(";")>>}) =>
            IF Exceeds(StripZeros(Digits[d]), MaxInt64Digits(10))
            THEN /\ errors = <<"could not parse \"" \o d \o "\" as integer">>
                 /\ program.Statements[1].Expression = NoNode
            ELSE /\ errors = <<>>
                 /\ program = OneExpression(IntegerLiteral(ValueOf(Digits[d], 10, 0)))

\* 010 was parsed to the integer literal 8, and 08 to an error.
LeadingZeroReadAsOctal ==
    /\ pc = "parsed"
    /\ \/ /\ tokens = <<IntTok("010")>>
          /\ program = OneExpression(IntegerLiteral(8))
       \/ /\ tokens = <<IntTok("08")>>
          /\ errors = <<"could not parse \"08\" as integer">>

(***************************************************************************)
(* The lexer's claims.                                                     *)
(***************************************************************************)
EOFReturned == \E i \in DOMAIN tokens : tokens[i].Type = "EOF"

\* C21: for every input, repeated NextToken calls return an EOF token after
\* finitely many calls, EOF is returned only once the whole input has been
\* consumed, and every call after the first EOF returns EOF.
EOFIsLast ==
    /\ <>EOFReturned
    /\ [](\A i \in DOMAIN tokens :
              tokens[i].Type = "EOF" =>
                  \A j \in i..Len(tokens) : tokens[j].Type = "EOF")
    /\ []((tokens # <<>> /\ tokens[Len(tokens)].Type = "EOF") =>
              lexer.position >= Len(lexer.input))

\* NextToken returned EOF at a NUL character and another token after it.
TokenAfterEOF ==
    \E i \in DOMAIN tokens :
        /\ i < Len(tokens)
        /\ tokens[i].Type = "EOF"
        /\ tokens[i + 1].Type # "EOF"
        /\ lexer.input[Len(lexer.input)] # NUL

\* The offsets after "from" at which the input holds a double quote.
QuotesAfter(input, from) ==
    { c \in (from + 1)..(Len(input) - 1) : input[c + 1] = "\"" }

\* The least element of a non-empty set of offsets.
Least(S) == CHOOSE c \in S : \A d \in S : c <= d

\* C29: on a double quote that has no closing quote, NextToken consumes all
\* remaining input and returns one STRING token whose literal is every
\* character after the opening quote, and the next call returns EOF; when a
\* closing quote exists the literal is exactly the characters between the
\* two quotes and lexing resumes after the closing quote.
StringTokenText ==
    [][LET input == lexer.input
           open == skipWhitespace(lexer).position
           tok == tokens'[Len(tokens')]
       IN skipWhitespace(lexer).ch = "\"" =>
              /\ tok.Type = "STRING"
              /\ IF QuotesAfter(input, open) = {}
                 THEN /\ tok.Literal = Slice(input, open + 1, Len(input))
                      /\ lexer'.position >= Len(input)
                      /\ NextToken(lexer').tok = EOF
                 ELSE LET close == Least(QuotesAfter(input, open))
                      IN /\ tok.Literal = Slice(input, open + 1, close)
                         /\ lexer'.position = close + 1]_vars

\* "<NUL>a was read as the empty STRING followed by the identifier a.
StringCutAtNUL ==
    /\ lexer.input = <<"\"", NUL, "a">>
    /\ Len(tokens) >= 2
    /\ tokens[1] = Token("STRING", "")
    /\ tokens[2] = Token("IDENT", "a")

\* seq continues old: nothing recorded is dropped or changed.
Extends(seq, old) ==
    /\ Len(seq) >= Len(old)
    /\ SubSeq(seq, 1, Len(old)) = old

\* C22: a parse failure never aborts or stalls ParseProgram.  Every pass of
\* its loop starts at a token that is not EOF and leaves the parser at
\* least one token further on, whether or not the statement parsed; the
\* messages recorded so far are kept, a failed expectation appends exactly
\* one message, and a let statement given up as absent has appended exactly
\* one; and on every input, those ending inside a block, a parameter list
\* or an argument list included, the loop reaches EOF and ParseProgram
\* returns.
ParseFailureNeverStalls ==
    /\ [][pc = "parsing" /\ pc' = "parsing" =>
            /\ parser.pos <= Len(tokens)
            /\ parser'.pos > parser.pos
            /\ Extends(errors', errors)
            /\ \A i \in (Len(peeks) + 1)..Len(peeks') :
                   ~peeks'[i].ok =>
                       /\ Extends(peeks'[i].errorsAfter, peeks'[i].errors)
                       /\ Len(peeks'[i].errorsAfter) = Len(peeks'[i].errors) + 1
            /\ program'.Statements = Append(program.Statements, NilLetStatement)
                   => Len(errors') = Len(errors) + 1]_vars
    /\ <>(pc = "parsed" /\ curTokenIs("EOF", parser))

\* let = 5; let y = ( ; 7 was parsed to the end: four messages were
\* recorded and the last statement is the expression 7.
RecoveredAfterFailures ==
    /\ pc = "parsed"
    /\ tokens = TwoFailures
    /\ Len(errors) = 4
    /\ program.Statements[Len(program.Statements)].Expression.node = "IntegerLiteral"
    /\ program.Statements[Len(program.Statements)].Expression.IntValue = 7

\* An input that ends inside a block, a parameter list or an argument list
\* was parsed to the end.
TruncatedInputParsed ==
    /\ pc = "parsed"
    /\ tokens \in {IfNotClosed, ParametersNotClosed, ArgumentsNotClosed}

\* C30: a block whose closing brace is missing before the end of the input
\* is reported: after ParseProgram on if (x) { 1, on fn(x) { x or on
\* if (true) { 1 } else { 2 the error list is not empty.
UnclosedBlockReported ==
    (pc = "parsed" /\ tokens \in {IfNotClosed, FunctionNotClosed, ElseNotClosed})
        => errors # <<>>

\* if (x) { 1 was parsed without any message into an if expression whose
\* consequence is the block holding 1.
UnclosedBlockAccepted ==
    /\ pc = "parsed"
    /\ tokens = IfNotClosed
    /\ errors = <<>>
    /\ program = OneExpression(
           IfExpression(Identifier("x"), Block(<<Stmt(Lit(1))>>), NoNode))

\* The node whose child the node with identity p is.
Parent(p) == NodeAt(program, SubSeq(p, 1, Len(p) - 1))

\* Entry j records the evaluation, by the same call of Eval, of the c-th
\* child of the node whose child entry i records.
IsSibling(j, i, c) ==
    /\ log[j].at = Append(SubSeq(log[i].at, 1, Len(log[i].at) - 1), c)
    /\ log[j].env = log[i].env

\* The let statements of the program itself that bound name before entry k.
BoundBefore(k, name) ==
    { j \in 1..(k - 1) : /\ log[j].kind = "LetStatement"
                         /\ log[j].env = log[k].env
                         /\ log[j].val.type # "ERROR"
                         /\ NodeAt(program, log[j].at).Name.Value = name }

\* C23: evaluation is strictly left-to-right and stops at the first Error.
\* The right operand of an infix expression is evaluated only after the left
\* one has returned, and only when that was not an Error; an argument of a
\* call is evaluated only after the callee and every argument before it have
\* returned, and only when none of them was an Error; a let whose value is an
\* Error returns the Error and binds nothing, so that no environment ever
\* holds an Error; and -a * b with a and b unbound yields
\* "identifier not found: a" without b being looked up.
OperandsLeftToRight ==
    /\ \A i \in Entries :
          LET c == log[i].at[Len(log[i].at)]
          IN /\ (log[i].at # <<>> /\ Parent(log[i].at).node = "InfixExpression" /\ c = 2)
                    => \E j \in 1..(i - 1) : /\ IsSibling(j, i, 1)
                                             /\ log[j].val.type # "ERROR"
             /\ (log[i].at # <<>> /\ Parent(log[i].at).node = "CallExpression" /\ c >= 1)
                    => \A b \in 0..(c - 1) :
                           \E j \in 1..(i - 1) : /\ IsSibling(j, i, b)
                                                 /\ log[j].val.type # "ERROR"
                                                 /\ \A a \in 1..(j - 1) : ~IsSibling(a, i, b + 1)
             /\ (log[i].kind = "LetStatement" /\ log[i].val.type = "ERROR")
                    => LET name == NodeAt(program, log[i].at).Name.Value
                       IN (log[i].env = RootEnv /\ BoundBefore(i, name) = {})
                              => name \notin DOMAIN envs[RootEnv].store
    /\ \A e \in DOMAIN envs : \A name \in DOMAIN envs[e].store :
          envs[e].store[name].type # "ERROR"
    /\ (pc # "parsed" /\ program = Locate(NegATimesBProgram, <<>>))
          => /\ result.type = "ERROR"
             /\ result.Message = "identifier not found: a"
             /\ \A i \in Entries : log[i].at # <<1, 1, 2>>

\* f(1 + 2, 3 * 4) returned 3: the callee was evaluated, then 1 + 2, then
\* 3 * 4.
ArgumentsInOrder ==
    \E f, x, y, k \in Entries :
        /\ log[k].kind = "CallExpression"
        /\ IsChild(f, k, 0) /\ IsChild(x, k, 1) /\ IsChild(y, k, 2)
        /\ f < x /\ x < y /\ y < k
        /\ log[x].val.type = "INTEGER" /\ log[x].val.IntValue = 3
        /\ log[y].val.type = "INTEGER" /\ log[y].val.IntValue = 12
        /\ log[k].val = log[x].val

\* -a * b returned the Error of a and b was never looked up.
LeftErrorStopsInfix ==
    /\ pc = "returned"
    /\ program = Locate(NegATimesBProgram, <<>>)
    /\ result.type = "ERROR"
    /\ result.Message = "identifier not found: a"
    /\ \E i \in Entries : log[i].at = <<1, 1, 1>> /\ log[i].val = result
    /\ \A i \in Entries : log[i].kind = "Identifier" => log[i].at = <<1, 1, 1, 1>>

\* A Boolean is TRUE or FALSE themselves and a null is NULL itself.
IsSingleton(obj) ==
    /\ obj.type = "BOOLEAN" => obj \in {TRUE_, FALSE_}
    /\ obj.type = "NULL" => obj = NULL

\* C24: every Boolean that Eval produces is one of the two singletons TRUE
\* and FALSE and every null is the singleton NULL, whether returned, wrapped
\* in a ReturnValue or bound in an environment; so == and != on two Booleans,
\* which compare identity, yield what comparing their values yields:
\* (1 < 2) == true and (1 > 2) == false are TRUE.
SingletonBooleans ==
    /\ IsSingleton(result)
    /\ \A i \in Entries :
          /\ IsSingleton(log[i].val)
          /\ log[i].val.type = "RETURN_VALUE" => IsSingleton(log[i].val.Wrapped)
    /\ \A e \in DOMAIN envs : \A name \in DOMAIN envs[e].store :
          IsSingleton(envs[e].store[name])
    /\ \A k \in Entries : \A l, r \in 1..(k - 1) :
          (/\ InfixOperands(k, l, r)
           /\ log[l].val.type = "BOOLEAN" /\ log[r].val.type = "BOOLEAN"
           /\ NodeAt(program, log[k].at).Operator \in {"==", "!="})
              => log[k].val =
                   IF (NodeAt(program, log[k].at).Operator = "==")
                          <=> (log[l].val.BoolValue <=> log[r].val.BoolValue)
                   THEN TRUE_ ELSE FALSE_
    /\ (pc = "returned" /\ program \in {Locate(LessIsTrue, <<>>),
                                        Locate(GreaterIsFalse, <<>>)})
          => result = TRUE_

\* (1 > 2) == false returned TRUE: the FALSE that 1 > 2 produced is the FALSE
\* that the literal false produced.
ComputedFalseIsFalse ==
    /\ pc = "returned"
    /\ program = Locate(GreaterIsFalse, <<>>)
    /\ result = TRUE_
    /\ \E l, r \in Entries : /\ log[l].at = <<1, 1, 1>> /\ log[r].at = <<1, 1, 2>>
                              /\ log[l].kind = "InfixExpression"
                              /\ log[l].val = FALSE_ /\ log[r].val = FALSE_

\* C25: Eval returns on every program that parsed without error and calls
\* its functions with as many arguments as they have parameters: an absent
\* result (of an empty block, of a block ending in a let, of a call of a
\* function with an empty body) used as the operand of unary -, as an
\* operand of a binary operator or as a callee does not stop the host with
\* a nil dereference, and an Integer division by zero does not stop it.
EvalReturnsWithoutFault ==
    pc = "crashed" =>
        fault \notin {"nil pointer dereference", "integer divide by zero"}

\* let a = if (true) { }; -a stopped the host: a is bound to the absent
\* result of the empty block and unary - asks it for its type.
AbsentOperandFaults ==
    /\ pc = "crashed"
    /\ fault = "nil pointer dereference"
    /\ program = Locate(Program(<<LetStatement("a", IfThen(Boolean(TRUE), <<>>)),
                                  Stmt(Neg(Id("a")))>>), <<>>)
    /\ \E i \in Entries : /\ log[i].at = <<2, 1, 1>>
                          /\ log[i].kind = "Identifier"
                          /\ log[i].val = nil

\* C26: applying a function modifies no environment that existed before the
\* call: when applyFunction returns, every environment that was there when
\* it was entered has the store and the outer it had then.  So
\* let x = 1; let f = fn() { let x = 2; x }; f(); x yields 1.
CallLeavesEnvironments ==
    /\ \A c \in DOMAIN calls :
          /\ Len(calls[c].after) > Len(calls[c].before)
          /\ \A e \in DOMAIN calls[c].before :
                 calls[c].after[e] = calls[c].before[e]
    /\ (pc = "returned" /\ program = Locate(ShadowingCall, <<>>))
          => result.type = "INTEGER" /\ result.IntValue = 1

\* let x = 1; let f = fn() { let x = 2; x }; f(); x returned 1: the call
\* bound x to 2 in an environment of its own and left the program's x alone.
CallBoundItsOwnX ==
    /\ pc = "returned"
    /\ program = Locate(ShadowingCall, <<>>)
    /\ Len(calls) = 1
    /\ \E e \in DOMAIN calls[1].after :
          /\ e \notin DOMAIN calls[1].before
          /\ "x" \in DOMAIN calls[1].after[e].store
          /\ calls[1].after[e].store["x"].IntValue = 2
    /\ envs[RootEnv].store["x"].IntValue = 1
    /\ result.IntValue = 1

\* Entry k records a let statement of a block of an if expression.
LetOfIfBlock(k) ==
    /\ log[k].kind = "LetStatement"
    /\ Len(log[k].at) >= 2
    /\ Parent(log[k].at).node = "BlockStatement"
    /\ Parent(Parent(log[k].at).at).node = "IfExpression"

\* C27: the blocks of an if expression open no scope.  A let inside the
\* consequence or the alternative is executed in the environment the if
\* expression itself is evaluated in: it binds there, over any binding the
\* name had, and the binding is still there when the if expression has
\* returned.  So if (true) { let a = 1; }; a yields 1.
BlocksShareScope ==
    /\ pc = "returned" =>
          \A k \in Entries :
              (LetOfIfBlock(k) /\ log[k].val.type # "ERROR") =>
                  /\ \E j \in (k + 1)..Len(log) :
                         /\ log[j].kind = "IfExpression"
                         /\ log[j].at = Parent(Parent(log[k].at).at).at
                         /\ log[j].env = log[k].env
                  /\ NodeAt(program, log[k].at).Name.Value
                         \in DOMAIN envs[log[k].env].store
    /\ (pc = "returned" /\ program \in {Locate(LetInIfBlock, <<>>),
                                        Locate(LetInIfBlockAgain, <<>>)})
          => /\ result.type = "INTEGER" /\ result.IntValue = 1
             /\ Len(envs) = 1

\* if (true) { let a = 1; }; a returned 1: the let of the block bound a in
\* the program's environment.
LetInBlockVisibleAfter ==
    /\ pc = "returned"
    /\ program = Locate(LetInIfBlock, <<>>)
    /\ \E k \in Entries : LetOfIfBlock(k) /\ log[k].env = RootEnv
    /\ envs[RootEnv].store["a"].IntValue = 1
    /\ result.IntValue = 1

\* 9223372036854775807, from its decimal digits five at a time.
Decimal9223372036854775807 ==
    Add64(Mul64(Add64(Mul64(Int64(922337203), Int64(100000)), Int64(68547)),
                Int64(100000)),
          Int64(75807))

\* The sum of n times a.
RECURSIVE Repeated(_, _)
Repeated(a, n) == IF n = 0 THEN Int64(0) ELSE Add64(a, Repeated(a, n - 1))

\* C28: Integer + - * and unary - never yield an Error on overflow: they
\* yield the Integer that is the result modulo 2^64 in two's complement.
\* On integers far from the limits that is the plain sum, difference,
\* product and negation; everywhere a + b - b is a, a - b + b is a, a * b is
\* b * a and, for small b, a added b times, and -a + a is 0;
\* 9223372036854775807 + 1 is -9223372036854775808 and negating the
\* smallest Integer yields itself.
OverflowWraps ==
    /\ Decimal9223372036854775807 = MaxInt64
    /\ pc = "returned" =>
          /\ result.type = "INTEGER"
          /\ \A i \in 1..Limbs : result.IntValue[i] \in 0..(Base - 1)
          /\ program.node = "PrefixExpression" =>
               LET a == program.Right.IntValue
                   r == result.IntValue
               IN /\ Add64(r, a) = Int64(0)
                  /\ \A n \in Small : a = Int64(n) => r = Int64(0 - n)
                  /\ a = MinInt64 => r = MinInt64
                  /\ a = MaxInt64 => r = Add64(MinInt64, Int64(1))
          /\ program.node = "InfixExpression" =>
               LET a == program.Left.IntValue
                   b == program.Right.IntValue
                   r == result.IntValue
               IN CASE program.Operator = "+" ->
                         /\ Sub64(r, b) = a
                         /\ \A n, m \in Small :
                                (a = Int64(n) /\ b = Int64(m)) => r = Int64(n + m)
                         /\ (a = MaxInt64 /\ b = Int64(1)) => r = MinInt64
                    [] program.Operator = "-" ->
                         /\ Add64(r, b) = a
                         /\ \A n, m \in Small :
                                (a = Int64(n) /\ b = Int64(m)) => r = Int64(n - m)
                         /\ (a = MinInt64 /\ b = Int64(1)) => r = MaxInt64
                    [] program.Operator = "*" ->
                         /\ r = Mul64(b, a)
                         /\ \A n, m \in Small :
                                (a = Int64(n) /\ b = Int64(m)) => r = Int64(n * m)
                         /\ \A m \in Small :
                                b = Int64(m) =>
                                    r = IF m >= 0 THEN Repeated(a, m)
                                        ELSE Neg64(Repeated(a, 0 - m))
                         /\ (a = MaxInt64 /\ b = Int64(2)) => r = Int64(-2)
                         /\ (a = MinInt64 /\ b = Int64(-1)) => r = MinInt64

\* 9223372036854775807 + 1 returned the Integer -9223372036854775808.
MaxPlusOneIsMin ==
    /\ pc = "returned"
    /\ program = InfixExpression(IntegerLiteral(MaxInt64), "+", IntegerLiteral(Int64(1)))
    /\ result.type = "INTEGER"
    /\ result.IntValue = MinInt64

====
